---------------------------- MODULE Spec2Model ----------------------------
(***************************************************************************)
(* Verification model of the beer library: Bayesian parameters             *)
(* (models/parameters.py), the Normal-Gamma families (dists/normalgamma.py)*)
(* and the generalized subspace model (models/gsm.py).                     *)
(*                                                                         *)
(* Tensors hold exact rationals.  A rational is a pair <<n, d>> in lowest  *)
(* terms with d > 0; the result of a division by zero (inf or nan in the   *)
(* tensor library) is the absorbing value NonFinite.                       *)
(***************************************************************************)
EXTENDS Integers, Sequences, FiniteSets, TLC

VARIABLES
    \* ---- one ConjugateBayesianParameter and its caller ----
    prior,        \* self.prior: NormalGamma standard parameters
    posterior,    \* self.posterior: NormalGamma standard parameters
    tensors,      \* contents of the tensors the caller owns
    reqGrad,      \* requires_grad flag of each caller tensor
    ownBuf,       \* contents of the tensor only the parameter references
    statsRef,     \* self._stats: "own" or the id of a caller tensor
    callbacks,    \* self._callbacks
    cbLog,        \* per callback: number of calls, arguments and posterior seen
    lastOp,       \* the operation that produced the current state
    nUpdates,     \* number of natural_grad_update calls so far
    \* ---- one exponential-family distribution object (round trip) ----
    distFamily,   \* "NormalGamma", "JointNormalGamma" or "none"
    distParams,   \* self.params: its standard parameters
    distBuilt,    \* the standard parameters it was built with
    distNat,      \* the vector natural_parameters() returned last
    distOp,       \* the last operation on the distribution
    \* ---- one GeneralizedSubspaceModel and its caller ----
    gType,        \* hessian_type: "full", "diagonal", "scalar" or "none"
    gDims,        \* [s |-> dim_s, o |-> dim_o] of create
    gMean,        \* self.mean: [prior, posterior, stats], natural parameters
    gSubspace,    \* self.subspace: [prior, posterior, stats]
    gCache,       \* self.cache: a dictionary
    gRet,         \* what the last call returned to the caller
    gOp,          \* the last call
    gBatch,       \* the batch the last call was given
    gFwd,         \* the last forward pass: its batch, the tensors its
                  \* evidence term used, the accumulate calls since
    gRead,        \* the cache entries the last accumulate read
    gUpdates,     \* number of natural_grad_update calls so far
    \* ---- one call of a function or constructor by a caller ----
    callFn,       \* the function called, "none" before the call
    callArgs,     \* the arguments of the call
    callRet,      \* what the call returned, or [raised |-> the exception]
    \* ---- one SBCategorical or SBCategoricalHyperPrior and its caller ----
    sbKind,       \* the class of the model, "none" without one
    sbParam,      \* self.stickbreaking: [prior, posterior, stats], T x 2
                  \* matrices of concentrations and of statistics
    sbConc,       \* self.concentration: [prior, posterior, stats], Gamma
                  \* [shape, rate] and a 2-vector of statistics
    sbOrdering,   \* self.ordering: component indices 0..T-1
    sbCache,      \* self.cache: a dictionary
    sbRet,        \* what the last call returned or raised
    sbOp,         \* the last call
    sbBatch,      \* the stats argument of the last call
    sbUpdates     \* number of natural_grad_update calls so far

paramVars == <<prior, posterior, tensors, reqGrad, ownBuf, statsRef,
               callbacks, cbLog, lastOp, nUpdates>>

distVars == <<distFamily, distParams, distBuilt, distNat, distOp>>

gsmVars == <<gType, gDims, gMean, gSubspace, gCache, gRet, gOp, gBatch,
             gFwd, gRead, gUpdates>>

callVars == <<callFn, callArgs, callRet>>

sbVars == <<sbKind, sbParam, sbConc, sbOrdering, sbCache, sbRet, sbOp,
            sbBatch, sbUpdates>>

vars == <<paramVars, distVars, gsmVars, callVars, sbVars>>

(* What the operations of one object leave alone: the other objects. *)
notParamVars == <<distVars, gsmVars, callVars, sbVars>>
notDistVars == <<paramVars, gsmVars, callVars, sbVars>>
notGsmVars == <<paramVars, distVars, callVars, sbVars>>
notCallVars == <<paramVars, distVars, gsmVars, sbVars>>
notSbVars == <<paramVars, distVars, gsmVars, callVars>>

---------------------------------------------------------------------------
(* Bounds of the model. *)
MaxUpdates == 2
MaxDim == 2
MaxComp == 2
MaxGsmUpdates == 1
MaxMagnitude == 64
MaxTrunc == 3
MaxSbUpdates == 1

---------------------------------------------------------------------------
(* Exact arithmetic on tensor elements. *)

Abs(i) == IF i < 0 THEN -i ELSE i

RECURSIVE Gcd(_, _)
Gcd(a, b) == IF b = 0 THEN a ELSE Gcd(b, a % b)

NonFinite == <<0, 0>>

Frac(n, d) ==
    IF d = 0 THEN NonFinite
    ELSE LET s == IF d < 0 THEN -1 ELSE 1
             g == Gcd(Abs(n), Abs(d))
         IN  <<(s * n) \div g, (s * d) \div g>>

Z(i) == <<i, 1>>
Half == <<1, 2>>

IsFinite(a) == a[2] # 0

(* Common factors are cancelled before the products are formed. *)
RAdd(a, b) ==
    IF IsFinite(a) /\ IsFinite(b)
    THEN LET g == Gcd(a[2], b[2])
         IN  Frac(a[1] * (b[2] \div g) + b[1] * (a[2] \div g),
                  (a[2] \div g) * b[2])
    ELSE NonFinite

RNeg(a) == IF IsFinite(a) THEN <<-a[1], a[2]>> ELSE NonFinite

RSub(a, b) == RAdd(a, RNeg(b))

RMul(a, b) ==
    IF IsFinite(a) /\ IsFinite(b)
    THEN LET g1 == Gcd(Abs(a[1]), b[2])
             g2 == Gcd(Abs(b[1]), a[2])
         IN  Frac((a[1] \div g1) * (b[1] \div g2),
                  (a[2] \div g2) * (b[2] \div g1))
    ELSE NonFinite

RDiv(a, b) ==
    IF IsFinite(a) /\ IsFinite(b) /\ b[1] # 0
    THEN RMul(a, IF b[1] < 0 THEN <<-b[2], -b[1]>> ELSE <<b[2], b[1]>>)
    ELSE NonFinite

RPos(a) == IsFinite(a) /\ a[1] > 0

RLe(a, b) == IsFinite(a) /\ IsFinite(b) /\ a[1] * b[2] <= b[1] * a[2]

(* Elementwise tensor operations on vectors of equal length; a vector of   *)
(* length 1 broadcasts.                                                    *)
Broadcastable(a, b) == Len(a) = Len(b) \/ Len(a) = 1 \/ Len(b) = 1

BLen(a, b) == IF Len(a) >= Len(b) THEN Len(a) ELSE Len(b)

At(a, i) == IF Len(a) = 1 THEN a[1] ELSE a[i]

(* A tensor holds its elements: the sequence of the values of f. *)
Tensor(f) == f \o <<>>

VAdd(a, b) == Tensor([i \in 1..BLen(a, b) |-> RAdd(At(a, i), At(b, i))])
VSub(a, b) == Tensor([i \in 1..BLen(a, b) |-> RSub(At(a, i), At(b, i))])
VMul(a, b) == Tensor([i \in 1..BLen(a, b) |-> RMul(At(a, i), At(b, i))])
VDiv(a, b) == Tensor([i \in 1..BLen(a, b) |-> RDiv(At(a, i), At(b, i))])
VScale(c, a) == Tensor([i \in 1..Len(a) |-> RMul(c, a[i])])
VNeg(a) == Tensor([i \in 1..Len(a) |-> RNeg(a[i])])
VZeros(n) == Tensor([i \in 1..n |-> Z(0)])
VFinite(a) == \A i \in 1..Len(a) : IsFinite(a[i])

RECURSIVE VSum(_)
VSum(a) == IF a = <<>> THEN Z(0) ELSE RAdd(Head(a), VSum(Tail(a)))

Slice(a, lo, hi) == Tensor([i \in 1..(hi - lo + 1) |-> a[lo + i - 1]])

---------------------------------------------------------------------------
(* dists/normalgamma.py: NormalGamma.  Standard parameters are a record    *)
(* [mean, scale, shape, rates]; mean and rates are vectors of length D.    *)

NormalGammaStdParams(mean, scale, shape, rates) ==
    [mean |-> mean, scale |-> scale, shape |-> shape, rates |-> rates]

natural_parameters(params) ==
    VScale(params.scale, params.mean)
    \o VSub(VScale(RMul(RNeg(Half), params.scale),
                   VMul(params.mean, params.mean)),
            params.rates)
    \o <<RMul(RNeg(Half), params.scale)>>
    \o <<RSub(params.shape, Half)>>

from_natural_parameters_shift1(natural_params) ==
    LET dim == (Len(natural_params) - 2) \div 2
        np1 == Slice(natural_params, 1, dim)
        np2 == Slice(natural_params, dim + 1, 2 * dim)
        np3 == natural_params[Len(natural_params) - 1]
        np4 == natural_params[Len(natural_params)]
        scale == RMul(Z(-2), np3)
        shape == RAdd(np4, Z(1))
        mean == VDiv(np1, <<scale>>)
        rates == VSub(VNeg(np2),
                      VScale(RMul(Half, scale), VMul(mean, mean)))
    IN  NormalGammaStdParams(mean, scale, shape, rates)

from_natural_parameters(natural_params) ==
    LET dim == (Len(natural_params) - 2) \div 2
        np1 == Slice(natural_params, 1, dim)
        np2 == Slice(natural_params, dim + 1, 2 * dim)
        np3 == natural_params[Len(natural_params) - 1]
        np4 == natural_params[Len(natural_params)]
        scale == RMul(Z(-2), np3)
        shape == RAdd(np4, Half)
        mean == VDiv(np1, <<scale>>)
        rates == VSub(VNeg(np2),
                      VScale(RMul(Half, scale), VMul(mean, mean)))
    IN  NormalGammaStdParams(mean, scale, shape, rates)

---------------------------------------------------------------------------
(* dists/normalgamma.py: JointNormalGamma.  means is a sequence of ncomp   *)
(* rows of length D, scales a vector of length ncomp, rates of length D.   *)

RECURSIVE Flatten(_)
Flatten(rows) == IF rows = <<>> THEN <<>> ELSE Head(rows) \o Flatten(Tail(rows))

Reshape(v, nrows, ncols) ==
    Tensor([k \in 1..nrows |-> Slice(v, (k - 1) * ncols + 1, k * ncols)])

(* rows.sum(dim=0): the vector of column sums. *)
SumDim0(rows, ncols) ==
    Tensor([d \in 1..ncols |-> VSum(Tensor([k \in 1..Len(rows) |-> rows[k][d]]))])

JointNormalGammaStdParams(means, scales, shape, rates) ==
    [means |-> means, scales |-> scales, shape |-> shape, rates |-> rates]

joint_natural_parameters(params) ==
    LET ncomp == Len(params.means)
        dim == Len(params.means[1])
    IN  Flatten(Tensor([k \in 1..ncomp |->
                    VScale(params.scales[k], params.means[k])]))
        \o VSub(VScale(RNeg(Half),
                       SumDim0(Tensor([k \in 1..ncomp |->
                                   VScale(params.scales[k],
                                          VMul(params.means[k],
                                               params.means[k]))]), dim)),
                params.rates)
        \o VScale(RNeg(Half), params.scales)
        \o <<RAdd(RSub(params.shape, Z(1)), RMul(Half, Z(ncomp)))>>

joint_from_natural_parameters(natural_params, ncomp) ==
    LET n == Len(natural_params)
        dim == (n - ncomp - 1) \div (ncomp + 1)
        np1s == Reshape(Slice(natural_params, 1, ncomp * dim), ncomp, dim)
        np2 == Slice(natural_params, ncomp * dim + 1, (ncomp + 1) * dim)
        np3s == Slice(natural_params, n - ncomp, n - 1)
        np4 == natural_params[n]
        scales == VScale(Z(-2), np3s)
        shape == RSub(RAdd(np4, Z(1)), RMul(Half, Z(ncomp)))
        means == Tensor([k \in 1..ncomp |-> VDiv(np1s[k], <<scales[k]>>)])
        rates == VSub(VNeg(np2),
                      VScale(Half,
                             SumDim0(Tensor([k \in 1..ncomp |->
                                         VMul(VScale(scales[k], means[k]),
                                              means[k])]), dim)))
    IN  JointNormalGammaStdParams(means, scales, shape, rates)

---------------------------------------------------------------------------
(* models/parameters.py: BayesianParameter / ConjugateBayesianParameter.   *)

CallerIds == {"u", "v"}
CallbackIds == {"cb1", "cb2"}
Lrates == {Z(0), Half, Z(1)}

(* The value of self._stats: the tensor the reference designates. *)
StatsValue == IF statsRef = "own" THEN ownBuf ELSE tensors[statsRef]

StatsRequiresGrad == IF statsRef = "own" THEN FALSE ELSE reqGrad[statsRef]

init_stats_like_mean(p) == VZeros(Len(p.mean))

init_stats(p) == VZeros(Len(natural_parameters(p)))

NoCall == [calls |-> 0, nargs |-> 0, seen |-> <<>>]

(* dispatch: every registered callback is called, with no argument; a      *)
(* callback that reads the posterior reads the value current at the call.  *)
dispatch_first_only(cbs, log, current) ==
    IF cbs = {} THEN log
    ELSE LET first == CHOOSE c \in cbs : TRUE
         IN  [log EXCEPT ![first] =
                 [calls |-> @.calls + 1, nargs |-> 0,
                  seen |-> natural_parameters(current)]]

dispatch(cbs, log, current) ==
    [c \in CallbackIds |->
        IF c \in cbs
        THEN [calls |-> log[c].calls + 1, nargs |-> 0,
              seen |-> natural_parameters(current)]
        ELSE log[c]]

register_callback(callback) ==
    /\ callbacks' = callbacks \cup {callback}
    /\ lastOp' = "register_callback"
    /\ UNCHANGED <<prior, posterior, tensors, reqGrad, ownBuf, statsRef,
                   cbLog, nUpdates>>
    /\ UNCHANGED notParamVars

zero_in_place_scalar(v) == <<Z(0)>>

zero_in_place(v) == VZeros(Len(v))

zero_stats ==
    /\ IF statsRef = "own"
       THEN /\ ownBuf' = zero_in_place(ownBuf)
            /\ UNCHANGED tensors
       ELSE /\ tensors' = [tensors EXCEPT ![statsRef] = zero_in_place(@)]
            /\ UNCHANGED ownBuf
    /\ lastOp' = "zero_stats"
    /\ UNCHANGED <<prior, posterior, reqGrad, statsRef, callbacks, cbLog,
                   nUpdates>>
    /\ UNCHANGED notParamVars

store_stats(acc_stats) ==
    /\ IF reqGrad[acc_stats]
       THEN /\ ownBuf' = tensors[acc_stats]
            /\ statsRef' = "own"
       ELSE /\ statsRef' = acc_stats
            /\ UNCHANGED ownBuf
    /\ lastOp' = "store_stats"
    /\ UNCHANGED <<prior, posterior, tensors, reqGrad, callbacks, cbLog,
                   nUpdates>>
    /\ UNCHANGED notParamVars

new_nparams_no_prior(prior_nparams, posterior_nparams, stats, lrate) ==
    VAdd(posterior_nparams,
         VScale(lrate, VSub(stats, posterior_nparams)))

new_nparams_descent(prior_nparams, posterior_nparams, stats, lrate) ==
    LET natural_grad == VSub(VAdd(prior_nparams, stats), posterior_nparams)
    IN  VSub(posterior_nparams, VScale(lrate, natural_grad))

new_nparams(prior_nparams, posterior_nparams, stats, lrate) ==
    LET natural_grad == VSub(VAdd(prior_nparams, stats), posterior_nparams)
    IN  VAdd(posterior_nparams, VScale(lrate, natural_grad))

natural_grad_update_consuming(lrate) ==
    /\ nUpdates < MaxUpdates
    /\ nUpdates' = nUpdates + 1
    /\ lastOp' = "natural_grad_update"
    /\ LET prior_nparams == natural_parameters(prior)
           posterior_nparams == natural_parameters(posterior)
       IN  IF Broadcastable(prior_nparams, StatsValue)
           THEN LET updated == from_natural_parameters(
                        new_nparams(prior_nparams, posterior_nparams,
                                    StatsValue, lrate))
                IN  /\ posterior' = updated
                    /\ cbLog' = dispatch(callbacks, cbLog, updated)
           ELSE UNCHANGED <<posterior, cbLog>>
    /\ ownBuf' = zero_in_place(StatsValue)
    /\ statsRef' = "own"
    /\ UNCHANGED <<prior, tensors, reqGrad, callbacks>>
    /\ UNCHANGED notParamVars

natural_grad_update(lrate) ==
    /\ nUpdates < MaxUpdates
    /\ nUpdates' = nUpdates + 1
    /\ lastOp' = "natural_grad_update"
    /\ LET prior_nparams == natural_parameters(prior)
           posterior_nparams == natural_parameters(posterior)
       IN  IF Broadcastable(prior_nparams, StatsValue)
           THEN LET updated == from_natural_parameters(
                        new_nparams(prior_nparams, posterior_nparams,
                                    StatsValue, lrate))
                IN  /\ posterior' = updated
                    /\ cbLog' = dispatch(callbacks, cbLog, updated)
           ELSE UNCHANGED <<posterior, cbLog>>
    /\ UNCHANGED <<prior, tensors, reqGrad, ownBuf, statsRef, callbacks>>
    /\ UNCHANGED notParamVars

(* The caller changes one of its own tensors in place (same shape). *)
StatsInputs(n) ==
    IF n = 4
    THEN {<<Z(1), Frac(-1, 2), Frac(-1, 2), Half>>,
          <<Z(0), Z(-2), Z(-1), Z(1)>>,
          <<Z(2), Half, Z(0), Z(0)>>}
    ELSE {<<Z(1), Z(2), Frac(-1, 2), Z(-2), Frac(-1, 2), Half>>,
          <<Z(-1), Z(1), Z(-1), Z(-1), Z(-1), Z(1)>>,
          <<Z(0), Z(0), Frac(3, 2), Z(0), Z(0), Z(0)>>}

caller_write(t) ==
    /\ \E val \in StatsInputs(Len(tensors[t])) :
          /\ val # tensors[t]
          /\ tensors' = [tensors EXCEPT ![t] = val]
    /\ lastOp' = "caller_write"
    /\ UNCHANGED <<prior, posterior, reqGrad, ownBuf, statsRef, callbacks,
                   cbLog, nUpdates>>
    /\ UNCHANGED notParamVars

Priors ==
    {NormalGammaStdParams(<<Z(0)>>, Z(1), Z(1), <<Z(1)>>),
     NormalGammaStdParams(<<Z(1), Z(-1)>>, Z(2), Z(1), <<Z(1), Z(2)>>)}

(* The posterior handed to the constructor: the prior's parameters (as the *)
(* default builders do) or another member of the family.                   *)
Posteriors(p) ==
    IF Len(p.mean) = 1
    THEN {NormalGammaStdParams(VAdd(p.mean, <<Half>>), RAdd(p.scale, Z(1)),
                               RAdd(p.shape, Half), VAdd(p.rates, <<Z(1)>>))}
    ELSE {p}

ParamInit ==
    /\ prior \in Priors
    /\ posterior \in Posteriors(prior)
    /\ tensors \in [CallerIds -> StatsInputs(Len(natural_parameters(prior)))]
    /\ reqGrad = [t \in CallerIds |-> t = "v"]
    /\ ownBuf = init_stats(prior)
    /\ statsRef = "own"
    /\ callbacks = {}
    /\ cbLog = [c \in CallbackIds |-> NoCall]
    /\ lastOp = "init"
    /\ nUpdates = 0

(* A caller that stores, resets and applies statistics. *)
ParamNext ==
    \/ zero_stats
    \/ \E t \in CallerIds : store_stats(t)
    \/ \E lrate \in Lrates : natural_grad_update(lrate)
    \/ \E t \in CallerIds : caller_write(t)

(* A caller that registers observers and applies statistics. *)
CallbackNext ==
    \/ \E c \in CallbackIds : register_callback(c)
    \/ \E t \in CallerIds : store_stats(t)
    \/ \E lrate \in Lrates : natural_grad_update(lrate)

---------------------------------------------------------------------------
(* A NormalGamma or JointNormalGamma object: natural_parameters() and      *)
(* update_from_natural_parameters().                                       *)

ElemVals == {Z(-1), Half}
PosVals == {Half, Z(3)}
ShapeVals == {Z(1), Frac(5, 2)}

Vectors(n, vals) == [1..n -> vals]

DistInputs ==
    {[family |-> "NormalGamma",
      params |-> NormalGammaStdParams(mean, scale, shape,
                                      VAdd(<<rate>>, Tensor([d \in 1..dim |-> Z(d)])))] :
        <<dim, mean, scale, shape, rate>> \in
            UNION {{d} \X Vectors(d, ElemVals) \X PosVals \X ShapeVals \X PosVals
                   : d \in 1..MaxDim}}
    \cup
    {[family |-> "JointNormalGamma",
      params |-> JointNormalGammaStdParams(
                     means,
                     Tensor([k \in 1..ncomp |-> RMul(scale, Z(k))]), shape,
                     VAdd(<<rate>>, Tensor([d \in 1..dim |-> Z(d)])))] :
        <<ncomp, dim, means, scale, shape, rate>> \in
            UNION {{k} \X {d} \X [1..k -> Vectors(d, ElemVals)]
                       \X PosVals \X ShapeVals \X PosVals
                   : <<k, d>> \in (1..MaxComp) \X (1..MaxDim)}}

dist_natural_parameters ==
    /\ distFamily # "none"
    /\ distNat' = IF distFamily = "NormalGamma"
                  THEN natural_parameters(distParams)
                  ELSE joint_natural_parameters(distParams)
    /\ distOp' = "natural_parameters"
    /\ UNCHANGED <<distFamily, distParams, distBuilt>>
    /\ UNCHANGED notDistVars

(* update_from_natural_parameters with the vector returned last. *)
dist_update_from_natural_parameters ==
    /\ distFamily # "none"
    /\ distNat # <<>>
    /\ distParams' = IF distFamily = "NormalGamma"
                     THEN from_natural_parameters(distNat)
                     ELSE joint_from_natural_parameters(
                              distNat, Len(distParams.means))
    /\ distOp' = "update_from_natural_parameters"
    /\ UNCHANGED <<distFamily, distBuilt, distNat>>
    /\ UNCHANGED notDistVars

DistIdle ==
    /\ distFamily = "none"
    /\ distParams = <<>>
    /\ distBuilt = <<>>
    /\ distNat = <<>>
    /\ distOp = "none"

ParamIdle ==
    /\ prior = <<>>
    /\ posterior = <<>>
    /\ tensors = <<>>
    /\ reqGrad = <<>>
    /\ ownBuf = <<>>
    /\ statsRef = "own"
    /\ callbacks = {}
    /\ cbLog = <<>>
    /\ lastOp = "none"
    /\ nUpdates = 0

DistInit ==
    /\ \E inp \in DistInputs :
          /\ distFamily = inp.family
          /\ distParams = inp.params
          /\ distBuilt = inp.params
    /\ distNat = <<>>
    /\ distOp = "init"

NSamples == {0, 1, 2}

(* sample without the raise: a draw that is the mean. *)
dist_sample_returns_mean(nsamples) ==
    /\ distFamily # "none"
    /\ callFn' = "sample"
    /\ callArgs' = [nsamples |-> nsamples]
    /\ callRet' = [returned |-> [i \in 1..nsamples |->
                                    IF distFamily = "NormalGamma"
                                    THEN distParams.mean ELSE distParams.means]]
    /\ distOp' = "sample"
    /\ UNCHANGED <<distFamily, distParams, distBuilt, distNat>>
    /\ UNCHANGED <<paramVars, gsmVars, sbVars>>

(* NormalGamma.sample and JointNormalGamma.sample. *)
dist_sample(nsamples) ==
    /\ distFamily # "none"
    /\ callFn' = "sample"
    /\ callArgs' = [nsamples |-> nsamples]
    /\ callRet' = [raised |-> "NotImplementedError"]
    /\ distOp' = "sample"
    /\ UNCHANGED <<distFamily, distParams, distBuilt, distNat>>
    /\ UNCHANGED <<paramVars, gsmVars, sbVars>>

DistNext ==
    \/ dist_natural_parameters
    \/ dist_update_from_natural_parameters
    \/ \E nsamples \in NSamples : dist_sample(nsamples)

---------------------------------------------------------------------------
(* models/gsm.py: the generalized subspace model.  A matrix is a sequence  *)
(* of rows.  Per-item tensors (opt, hessians, H, HH, ...) are sequences    *)
(* indexed by the item.                                                    *)

Dot(a, b) == VSum(VMul(a, b))
MatVec(M, v) == Tensor([j \in 1..Len(M) |-> Dot(M[j], v)])
Transpose(M) == Tensor([d \in 1..Len(M[1]) |-> Tensor([k \in 1..Len(M) |-> M[k][d]])])
MatMul(A, B) == Tensor([j \in 1..Len(A) |-> MatVec(Transpose(B), A[j])])
MatAdd(A, B) == Tensor([j \in 1..Len(A) |-> VAdd(A[j], B[j])])
MatScale(c, M) == Tensor([j \in 1..Len(M) |-> VScale(c, M[j])])
Eye(n) == Tensor([j \in 1..n |-> Tensor([k \in 1..n |-> IF j = k THEN Z(1) ELSE Z(0)])])
Outer(a, b) == Tensor([j \in 1..Len(a) |-> VScale(a[j], b)])
Diag(M) == Tensor([j \in 1..Len(M) |-> M[j][j]])

RECURSIVE SumVecs(_, _)
SumVecs(vs, n) ==
    IF vs = <<>> THEN VZeros(n) ELSE VAdd(Head(vs), SumVecs(Tail(vs), n))

(* _trace_array: the trace of each matrix of a batch. *)
trace_array(matrices) == Tensor([i \in 1..Len(matrices) |-> VSum(Diag(matrices[i]))])

(* The inverse of a 1x1 or 2x2 matrix. *)
MatInverse(M) ==
    IF Len(M) = 1 THEN <<<<RDiv(Z(1), M[1][1])>>>>
    ELSE LET det == RSub(RMul(M[1][1], M[2][2]), RMul(M[1][2], M[2][1]))
         IN  <<<<RDiv(M[2][2], det), RDiv(RNeg(M[1][2]), det)>>,
               <<RDiv(RNeg(M[2][1]), det), RDiv(M[1][1], det)>>>>

(* NormalFullCovariancePrior(mean, cov): natural parameters                *)
(* (precision.mean, -1/2 precision) and moments (mean, cov + mean mean^T). *)
normal_natural(mean, cov) ==
    LET precision == MatInverse(cov)
    IN  MatVec(precision, mean) \o Flatten(MatScale(RNeg(Half), precision))

normal_cov(nparams, n) ==
    MatInverse(MatScale(Z(-2), Reshape(Slice(nparams, n + 1, n + n * n), n, n)))

second_moment(mean, cov) == <<mean, Flatten(MatAdd(cov, Outer(mean, mean)))>>

normal_moments_from(cov, nparams, n) ==
    second_moment(MatVec(cov, Slice(nparams, 1, n)), cov)

normal_moments(nparams, n) ==
    normal_moments_from(normal_cov(nparams, n), nparams, n)

(* MatrixNormalPrior(M, U) over a K x D matrix: natural parameters         *)
(* (U^-1 M, -1/2 U^-1), mean M, row covariance U.                          *)
matrixnormal_natural(M, U) ==
    LET Uinv == MatInverse(U)
    IN  Flatten(MatMul(Uinv, M)) \o Flatten(MatScale(RNeg(Half), Uinv))

matrixnormal_cov(nparams, k, dim) ==
    MatInverse(MatScale(Z(-2),
                        Reshape(Slice(nparams, k * dim + 1, k * dim + k * k), k, k)))

matrixnormal_second(W, U, dim) ==
    <<W, Flatten(MatAdd(MatScale(Z(dim), U), MatMul(W, Transpose(W))))>>

matrixnormal_moments_from(U, nparams, k, dim) ==
    matrixnormal_second(MatMul(U, Reshape(Slice(nparams, 1, k * dim), k, dim)),
                        U, dim)

matrixnormal_moments(nparams, k, dim) ==
    matrixnormal_moments_from(matrixnormal_cov(nparams, k, dim), nparams, k, dim)

(* The likelihood function collaborator: a Normal with identity covariance *)
(* whose natural parameter is its mean:                                    *)
(*   llh(theta; s, n) = theta.s - n |theta|^2 / 2.                         *)
llh_argmax(stats, counts) ==
    Tensor([i \in 1..Len(stats) |-> VDiv(stats[i], <<counts[i]>>)])

llh_hessian(opt, stats, counts, mode) ==
    Tensor([i \in 1..Len(opt) |->
        CASE mode = "full" -> MatScale(RNeg(counts[i]), Eye(Len(opt[i])))
          [] mode = "diagonal" -> Tensor([d \in 1..Len(opt[i]) |-> RNeg(counts[i])])
          [] mode = "scalar" -> RNeg(counts[i])])

llh_func(opt, stats, counts) ==
    Tensor([i \in 1..Len(opt) |->
        RSub(Dot(opt[i], stats[i]),
             RMul(RMul(Half, counts[i]), Dot(opt[i], opt[i])))])

(* Dictionaries (the cache). *)
EmptyDict == [key \in {} |-> 0]

DictUpdate(old, new) ==
    [key \in (DOMAIN old) \cup (DOMAIN new) |->
        IF key \in DOMAIN new THEN new[key] ELSE old[key]]

(* ---- latent_posteriors: the lines that differ between the modes ---- *)

tr_hessians_full(hessians) == trace_array(hessians)
tr_hessians_diagonal_first(hessians) == Tensor([i \in 1..Len(hessians) |-> hessians[i][1]])
tr_hessians_diagonal(hessians) == Tensor([i \in 1..Len(hessians) |-> VSum(hessians[i])])
tr_hessians_scalar_untraced(hessians, m) == hessians
tr_hessians_scalar(hessians, m) ==
    Tensor([i \in 1..Len(hessians) |-> RMul(hessians[i], Z(Len(m)))])

tr_hessians(hessians, m, mode) ==
    CASE mode = "full" -> tr_hessians_full(hessians)
      [] mode = "diagonal" -> tr_hessians_diagonal(hessians)
      [] mode = "scalar" -> tr_hessians_scalar(hessians, m)

(* W @ hessians @ W.t() (full) and HW @ W.t() (diagonal, scalar), one item. *)
WHWt(hessian, W, mode) ==
    CASE mode = "full" -> MatMul(MatMul(W, hessian), Transpose(W))
      [] mode = "diagonal" ->
            MatMul(Tensor([k \in 1..Len(W) |-> VMul(hessian, W[k])]), Transpose(W))
      [] mode = "scalar" -> MatMul(MatScale(hessian, W), Transpose(W))

(* The product of one item's Hessian with a vector, in each representation. *)
HessVec(hessian, v, mode) ==
    CASE mode = "full" -> MatVec(hessian, v)
      [] mode = "diagonal" -> VMul(hessian, v)
      [] mode = "scalar" -> VScale(hessian, v)

(* The moments the forward pass extracts from the two posteriors. *)
moments_record(mom_m, mom_W) ==
    [m |-> mom_m[1], mm |-> mom_m[2], W |-> mom_W[1], WW |-> mom_W[2]]

extract_moments(mean_post, subspace_post, dims) ==
    moments_record(normal_moments(mean_post, dims.o),
                   matrixnormal_moments(subspace_post, dims.s, dims.o))

latent_prior_natural(dims) == normal_natural(VZeros(dims.s), Eye(dims.s))

(* latent_posteriors, statement by statement; c holds the local variables  *)
(* assigned so far.                                                        *)
lp_locals(data, mom, U, nparams_0, dims, mode) ==
    [stats |-> Tensor([i \in 1..Len(data) |-> Slice(data[i], 1, Len(data[i]) - 1)]),
     counts |-> Tensor([i \in 1..Len(data) |-> data[i][Len(data[i])]]),
     m |-> mom.m, mm |-> mom.mm, W |-> mom.W, WW |-> mom.WW,
     U |-> U, nparams_0 |-> nparams_0, dims |-> dims, mode |-> mode,
     opt |-> <<>>, hessians |-> <<>>, tr_hessians |-> <<>>, WHW |-> <<>>,
     l_posts |-> <<>>, H |-> <<>>, HH |-> <<>>]

lp_opt(c) == [c EXCEPT !.opt = llh_argmax(c.stats, c.counts)]

lp_hessians(c) ==
    [c EXCEPT !.hessians = llh_hessian(c.opt, c.stats, c.counts, c.mode)]

lp_tr_hessians(c) ==
    [c EXCEPT !.tr_hessians = tr_hessians(c.hessians, c.m, c.mode)]

lp_WHW(c) ==
    [c EXCEPT !.WHW =
        Tensor([i \in 1..Len(c.hessians) |->
                   Flatten(MatAdd(MatScale(c.tr_hessians[i], c.U),
                                  WHWt(c.hessians[i], c.W, c.mode)))])]

(* m_opt, Hm_o, acc_stats and the natural parameters of the posteriors. *)
lp_l_posts_positive_linear(c) ==
    [c EXCEPT !.l_posts =
        Tensor([i \in 1..Len(c.hessians) |->
                   VAdd(c.nparams_0,
                        MatVec(c.W, HessVec(c.hessians[i],
                                            VSub(c.opt[i], c.m), c.mode))
                        \o VScale(Half, c.WHW[i]))])]

lp_l_posts(c) ==
    [c EXCEPT !.l_posts =
        Tensor([i \in 1..Len(c.hessians) |->
                   VAdd(c.nparams_0,
                        MatVec(c.W, VNeg(HessVec(c.hessians[i],
                                                 VSub(c.opt[i], c.m), c.mode)))
                        \o VScale(Half, c.WHW[i]))])]

lp_moments(c) ==
    [c EXCEPT
        !.H = Tensor([i \in 1..Len(c.l_posts) |->
                         normal_moments(c.l_posts[i], c.dims.s)[1]]),
        !.HH = Tensor([i \in 1..Len(c.l_posts) |->
                          normal_moments(c.l_posts[i], c.dims.s)[2]])]

lp_return(c) ==
    [l_posts |-> c.l_posts,
     cache |-> [U |-> c.U, opt |-> c.opt, hessians |-> c.hessians,
                tr_hessians |-> c.tr_hessians, m |-> c.m, mm |-> c.mm,
                W |-> c.W, WW |-> c.WW, H |-> c.H, HH |-> c.HH,
                stats |-> c.stats, counts |-> c.counts, WHW |-> c.WHW]]

(* latent_posteriors(data, cache=True): the natural parameters of the      *)
(* latent posteriors and the dictionary of intermediate computation.       *)
latent_posteriors_cache(data, mean_post, subspace_post, dims, mode) ==
    lp_return(lp_moments(lp_l_posts(lp_WHW(lp_tr_hessians(lp_hessians(lp_opt(
        lp_locals(data,
                  extract_moments(mean_post, subspace_post, dims),
                  matrixnormal_cov(subspace_post, dims.s, dims.o),
                  latent_prior_natural(dims), dims, mode))))))))

(* ---- _quad_approx ---- *)

quad_hW(cache) == MatMul(cache.H, cache.W)

(* mHm and quad_opt: the Hessian against a second moment. *)
HessQuad(hessian, second, dim, mode) ==
    CASE mode = "full" -> Dot(Flatten(hessian), second)
      [] mode = "diagonal" -> Dot(hessian, Diag(Reshape(second, dim, dim)))
      [] mode = "scalar" -> VSum(VScale(hessian, Diag(Reshape(second, dim, dim))))

quad_approx_llh_single_cross(cache, mode) ==
    LET N == Len(cache.opt)
        dim == Len(cache.m)
        hW == quad_hW(cache)
        term(i) ==
            LET hessian == cache.hessians[i]
                o == cache.opt[i]
                mHm == HessQuad(hessian, cache.mm, dim, mode)
                Hm == HessVec(hessian, cache.m, mode)
                mHWh == Dot(hW[i], Hm)
                oHm == Dot(o, Hm)
                oH == HessVec(hessian, o, mode)
                oHWh == Dot(oH, hW[i])
                hWHWh == Dot(cache.HH[i], cache.WHW[i])
                quad_opt == HessQuad(hessian, Flatten(Outer(o, o)), dim, mode)
            IN  RMul(Half,
                     RAdd(RAdd(RAdd(hWHWh, mHm), quad_opt),
                          RSub(RSub(mHWh, oHm), oHWh)))
        llh == llh_func(cache.opt, cache.stats, cache.counts)
    IN  Tensor([i \in 1..N |-> RAdd(llh[i], term(i))])

quad_approx_llh(cache, mode) ==
    LET N == Len(cache.opt)
        dim == Len(cache.m)
        hW == quad_hW(cache)
        term(i) ==
            LET hessian == cache.hessians[i]
                o == cache.opt[i]
                mHm == HessQuad(hessian, cache.mm, dim, mode)
                Hm == HessVec(hessian, cache.m, mode)
                mHWh == Dot(hW[i], Hm)
                oHm == Dot(o, Hm)
                oH == HessVec(hessian, o, mode)
                oHWh == Dot(oH, hW[i])
                hWHWh == Dot(cache.HH[i], cache.WHW[i])
                quad_opt == HessQuad(hessian, Flatten(Outer(o, o)), dim, mode)
            IN  RMul(Half,
                     RAdd(RAdd(RAdd(hWHWh, mHm), quad_opt),
                          RMul(Z(2), RSub(RSub(mHWh, oHm), oHWh))))
        llh == llh_func(cache.opt, cache.stats, cache.counts)
    IN  Tensor([i \in 1..N |-> RAdd(llh[i], term(i))])

quad_new_cache_stale_hW(cache) ==
    DictUpdate(cache, [hW |-> Tensor([i \in 1..Len(cache.opt) |-> cache.m])])

quad_new_cache(cache) == DictUpdate(cache, [hW |-> quad_hW(cache)])

(* ---- accumulate ---- *)

AccumulateKeys == {"hessians", "tr_hessians", "hW", "opt", "m", "H", "HH"}

(* .5 * the sum of the Hessians as each mode stores them. *)
half_sum_hessians_as_stored(hessians, dim, mode) ==
    LET stored(i) ==
            CASE mode = "full" -> Flatten(hessians[i])
              [] mode = "diagonal" -> hessians[i]
              [] mode = "scalar" -> <<hessians[i]>>
    IN  VScale(Half, SumVecs(Tensor([i \in 1..Len(hessians) |-> stored(i)]),
                             Len(stored(1))))

(* .5 * the sum of the Hessians over the items, as a flattened matrix. *)
half_sum_hessians(hessians, dim, mode) ==
    LET asMatrix(i) ==
            CASE mode = "full" -> hessians[i]
              [] mode = "diagonal" ->
                    Tensor([a \in 1..dim |-> VMul(hessians[i], Eye(dim)[a])])
              [] mode = "scalar" -> MatScale(hessians[i], Eye(dim))
    IN  VScale(Half, SumVecs(Tensor([i \in 1..Len(hessians) |-> Flatten(asMatrix(i))]),
                             dim * dim))

accumulate_stats(read, mode) ==
    LET N == Len(read.opt)
        dim == Len(read.m)
        HWh_o == Tensor([i \in 1..N |->
                     HessVec(read.hessians[i], VSub(read.opt[i], read.hW[i]), mode)])
        mean_stats == VNeg(SumVecs(HWh_o, dim))
                      \o half_sum_hessians(read.hessians, dim, mode)
        isometric_params == Tensor([i \in 1..N |-> RDiv(read.tr_hessians[i], Z(dim))])
        to_m == Tensor([i \in 1..N |->
                    VScale(isometric_params[i], VSub(read.opt[i], read.m))])
        tHH == Tensor([i \in 1..N |-> VScale(isometric_params[i], read.HH[i])])
        subspace_stats ==
            VNeg(Flatten(MatMul(Transpose(read.H), to_m)))
            \o VScale(Half, SumVecs(tHH, Len(read.HH[1])))
    IN  [mean |-> mean_stats, subspace |-> subspace_stats]

(* ---- the model object, its caller and the operations ---- *)

GsmModes == {"full", "diagonal", "scalar"}

(* The arguments of create: mean_subspace (dim_s x dim_o) and global_mean. *)
GsmCreateArgs ==
    {[mean_subspace |-> <<<<Z(1), Z(0)>>>>, global_mean |-> <<Z(0), Z(0)>>],
     [mean_subspace |-> <<<<Z(1)>>>>, global_mean |-> <<Z(0)>>]}

(* The batches of the caller: rows of statistics followed by the count. *)
BatchIds == {"A", "B"}

BatchData(b, dims) ==
    IF dims.o = 1
    THEN IF b = "A" THEN <<<<Z(0), Z(1)>>, <<Z(1), Z(1)>>>>
                    ELSE <<<<Z(3), Z(1)>>>>
    ELSE IF b = "A" THEN <<<<Z(2), Z(0), Z(1)>>, <<Z(2), Z(2), Z(1)>>>>
                    ELSE <<<<Z(2), Z(1), Z(1)>>>>

GsmLrates == {Z(1)}

(* The forward pass is followed from the posteriors whose natural          *)
(* parameters have numerators and denominators up to MaxMagnitude: its     *)
(* intermediate products then stay within 32-bit integers.                 *)
Representable(v) ==
    \A i \in 1..Len(v) : Abs(v[i][1]) <= MaxMagnitude /\ v[i][2] <= MaxMagnitude

NoForward == [batch |-> "none", used |-> EmptyDict, reads |-> 0]

(* create with noise_std = 0 and prior_strength = 1, then __init__. *)
create(hessian_type, args) ==
    LET dim_s == Len(args.mean_subspace)
        dim_o == Len(args.global_mean)
        subspace_prior == matrixnormal_natural(args.mean_subspace, Eye(dim_s))
        mean_prior == normal_natural(args.global_mean, MatScale(Z(1), Eye(dim_o)))
    IN  /\ gType = hessian_type
        /\ gDims = [s |-> dim_s, o |-> dim_o]
        /\ gSubspace = [prior |-> subspace_prior, posterior |-> subspace_prior,
                        stats |-> VZeros(Len(subspace_prior))]
        /\ gMean = [prior |-> mean_prior, posterior |-> mean_prior,
                    stats |-> VZeros(Len(mean_prior))]
        /\ gCache = EmptyDict

forward_pass(b) ==
    latent_posteriors_cache(BatchData(b, gDims), gMean.posterior,
                            gSubspace.posterior, gDims, gType)

latent_posteriors(b, cache) ==
    /\ Representable(gMean.posterior)
    /\ Representable(gSubspace.posterior)
    /\ gRet' = IF cache THEN forward_pass(b)
                        ELSE [l_posts |-> forward_pass(b).l_posts]
    /\ gOp' = "latent_posteriors"
    /\ gBatch' = b
    /\ gRead' = EmptyDict
    /\ UNCHANGED <<gType, gDims, gMean, gSubspace, gCache, gFwd, gUpdates>>
    /\ UNCHANGED notGsmVars

(* _quad_approx(cache): the value, the new cache, and the hW it used. *)
quad_approx(lp, mode) ==
    [l_posts |-> lp.l_posts,
     approx_llh |-> quad_approx_llh(lp.cache, mode),
     cache |-> quad_new_cache(lp.cache),
     used |-> [hessians |-> lp.cache.hessians, opt |-> lp.cache.opt,
               H |-> lp.cache.H, HH |-> lp.cache.HH, hW |-> quad_hW(lp.cache)]]

(* The call returns approx_llh - _latent_kl_div(l_posts): the divergence  *)
(* is a function of l_posts and of the constant latent prior with a        *)
(* logarithm in it; the return value is kept as the pair it is computed    *)
(* from.                                                                   *)
ell_effect_cache_dropped(b, q) ==
    /\ gCache' = gCache
    /\ gRet' = [approx_llh |-> q.approx_llh, l_posts |-> q.l_posts]
    /\ gFwd' = [batch |-> b, used |-> q.used, reads |-> 0]

ell_effect(b, q) ==
    /\ gCache' = DictUpdate(gCache, q.cache)
    /\ gRet' = [approx_llh |-> q.approx_llh, l_posts |-> q.l_posts]
    /\ gFwd' = [batch |-> b, used |-> q.used, reads |-> 0]

expected_log_likelihood(b) ==
    /\ Representable(gMean.posterior)
    /\ Representable(gSubspace.posterior)
    /\ ell_effect(b, quad_approx(forward_pass(b), gType))
    /\ gOp' = "expected_log_likelihood"
    /\ gBatch' = b
    /\ gRead' = EmptyDict
    /\ UNCHANGED <<gType, gDims, gMean, gSubspace, gUpdates>>
    /\ UNCHANGED notGsmVars

accumulate_committing(b) ==
    /\ AccumulateKeys \subseteq DOMAIN gCache
    /\ gRead' = [key \in AccumulateKeys |-> gCache[key]]
    /\ gRet' = accumulate_stats(gRead', gType)
    /\ gMean' = [gMean EXCEPT !.stats = gRet'.mean]
    /\ gSubspace' = [gSubspace EXCEPT !.stats = gRet'.subspace]
    /\ gOp' = "accumulate"
    /\ gBatch' = b
    /\ UNCHANGED <<gType, gDims, gCache, gFwd, gUpdates>>
    /\ UNCHANGED notGsmVars

accumulate(b) ==
    /\ IF AccumulateKeys \subseteq DOMAIN gCache
       THEN /\ gRead' = [key \in AccumulateKeys |-> gCache[key]]
            /\ gRet' = accumulate_stats(gRead', gType)
            /\ gFwd' = [gFwd EXCEPT !.reads = IF @ < 2 THEN @ + 1 ELSE @]
       ELSE /\ gRead' = EmptyDict
            /\ gRet' = [raised |-> "KeyError"]
            /\ UNCHANGED gFwd
    /\ gOp' = "accumulate"
    /\ gBatch' = b
    /\ UNCHANGED <<gType, gDims, gMean, gSubspace, gCache, gUpdates>>
    /\ UNCHANGED notGsmVars

(* The caller hands the statistics accumulate returned to store_stats of   *)
(* the parameter they are keyed by.                                        *)
gsm_store_stats ==
    /\ gOp = "accumulate"
    /\ "mean" \in DOMAIN gRet
    /\ gMean' = [gMean EXCEPT !.stats = gRet.mean]
    /\ gSubspace' = [gSubspace EXCEPT !.stats = gRet.subspace]
    /\ gOp' = "store_stats"
    /\ gRet' = EmptyDict
    /\ gBatch' = "none"
    /\ gRead' = EmptyDict
    /\ UNCHANGED <<gType, gDims, gCache, gFwd, gUpdates>>
    /\ UNCHANGED notGsmVars

gsm_natural_grad_update(lrate) ==
    /\ gUpdates < MaxGsmUpdates
    /\ gUpdates' = gUpdates + 1
    /\ gMean' = [gMean EXCEPT !.posterior =
                     new_nparams(gMean.prior, @, gMean.stats, lrate)]
    /\ gSubspace' = [gSubspace EXCEPT !.posterior =
                         new_nparams(gSubspace.prior, @, gSubspace.stats, lrate)]
    /\ gOp' = "natural_grad_update"
    /\ gRet' = EmptyDict
    /\ gBatch' = "none"
    /\ gRead' = EmptyDict
    /\ UNCHANGED <<gType, gDims, gCache, gFwd>>
    /\ UNCHANGED notGsmVars

GsmIdle ==
    /\ gType = "none"
    /\ gDims = [s |-> 0, o |-> 0]
    /\ gMean = [prior |-> <<>>, posterior |-> <<>>, stats |-> <<>>]
    /\ gSubspace = [prior |-> <<>>, posterior |-> <<>>, stats |-> <<>>]
    /\ gCache = EmptyDict
    /\ gRet = EmptyDict
    /\ gOp = "none"
    /\ gBatch = "none"
    /\ gFwd = NoForward
    /\ gRead = EmptyDict
    /\ gUpdates = 0

GsmInit ==
    /\ \E hessian_type \in GsmModes, args \in GsmCreateArgs :
          create(hessian_type, args)
    /\ gRet = EmptyDict
    /\ gOp = "create"
    /\ gBatch = "none"
    /\ gFwd = NoForward
    /\ gRead = EmptyDict
    /\ gUpdates = 0

GsmNext ==
    \/ \E b \in BatchIds, cache \in BOOLEAN : latent_posteriors(b, cache)
    \/ \E b \in BatchIds : expected_log_likelihood(b)
    \/ \E b \in BatchIds : accumulate(b)
    \/ gsm_store_stats
    \/ \E lrate \in GsmLrates : gsm_natural_grad_update(lrate)

---------------------------------------------------------------------------
(* models/categorical.py: SBCategorical and SBCategoricalHyperPrior.  The  *)
(* concentrations of the stick-breaking Dirichlet are a T x 2 matrix; the  *)
(* model is followed while they are integers, where the differences of     *)
(* digamma values are rational.                                            *)

RECURSIVE HarmonicRange(_, _)
HarmonicRange(lo, hi) ==
    IF lo > hi THEN Z(0) ELSE RAdd(Frac(1, lo), HarmonicRange(lo + 1, hi))

(* torch.digamma(a) - torch.digamma(s) for integers 1 <= a <= s. *)
digamma_diff(a, s) == RNeg(HarmonicRange(a[1], s[1] - 1))

IntegerConcentrations(c) ==
    \A t \in 1..Len(c) : \A k \in 1..2 : c[t][k][2] = 1 /\ c[t][k][1] >= 1

CumSum(v) == Tensor([i \in 1..Len(v) |-> VSum(Slice(v, 1, i))])

sb_log_v(c) ==
    Tensor([t \in 1..Len(c) |-> digamma_diff(c[t][1], RAdd(c[t][1], c[t][2]))])

sb_log_1_v(c) ==
    Tensor([t \in 1..Len(c) |-> digamma_diff(c[t][2], RAdd(c[t][1], c[t][2]))])

(* log_prob = log_v; log_prob[1:] += log_1_v[:-1].cumsum(dim=0) *)
sb_log_prob_from(log_v, cum_log_1_v) ==
    Tensor([t \in 1..Len(log_v) |->
               IF t = 1 THEN log_v[1] ELSE RAdd(log_v[t], cum_log_1_v[t - 1])])

sb_log_prob(c) == sb_log_prob_from(sb_log_v(c), CumSum(sb_log_1_v(c)))

(* torch.cat([log_1_v[:, None], pad[:, None]], dim=-1) *)
sb_stats_from(log_1_v) == Tensor([t \in 1..Len(log_1_v) |-> <<log_1_v[t], Z(1)>>])

sb_stats(c) == sb_stats_from(sb_log_1_v(c))

(* The natural parameters of the Dirichlet and of the Gamma, and the       *)
(* expected value of the Gamma.                                            *)
dirichlet_natural(c) == VSub(Flatten(c), Tensor([i \in 1..(2 * Len(c)) |-> Z(1)]))

dirichlet_from_natural(v) ==
    Reshape(VAdd(v, Tensor([i \in 1..Len(v) |-> Z(1)])), Len(v) \div 2, 2)

gamma_natural(g) == <<RNeg(g.rate), RSub(g.shape, Z(1))>>

gamma_value(g) == RDiv(g.shape, g.rate)

(* _default_sb_param and _default_concentration_param. *)
default_sb_param(truncation, prior_strength) ==
    [prior |-> Tensor([t \in 1..truncation |-> <<Z(1), prior_strength>>]),
     posterior |-> Tensor([t \in 1..truncation |-> <<Z(1), prior_strength>>]),
     stats |-> Tensor([t \in 1..truncation |-> <<Z(0), Z(0)>>])]

default_concentration_param(mean, prior_strength) ==
    [prior |-> [shape |-> prior_strength, rate |-> RDiv(prior_strength, mean)],
     posterior |-> [shape |-> prior_strength, rate |-> RDiv(prior_strength, mean)],
     stats |-> <<Z(0), Z(0)>>]

NoConcentration == [prior |-> <<>>, posterior |-> <<>>, stats |-> <<>>]

(* _on_concentration_update: the second column of the stick-breaking       *)
(* prior is set to the value of the concentration.                         *)
on_concentration_update(sb, concentration) ==
    [sb EXCEPT !.prior =
        Tensor([t \in 1..Len(sb.prior) |->
                   <<sb.prior[t][1], gamma_value(concentration.posterior)>>])]

(* reverse_ordering: zeros, then reverse_ordering[j] = i for each i, j of  *)
(* enumerate(self.ordering), a later assignment replacing an earlier one.  *)
reverse_ordering(ordering) ==
    Tensor([j \in 1..Len(ordering) |->
               LET hits == {i \in 1..Len(ordering) : ordering[i] = j - 1}
               IN  IF hits = {} THEN 0
                   ELSE (CHOOSE i \in hits : \A k \in hits : k <= i) - 1])

(* ---- accumulate ---- *)

(* The identity order in place of the sorted one. *)
SortDescending_unsorted(totals) ==
    {Tensor([i \in 1..Len(totals) |-> i - 1])}

(* The orders stats.sum(dim=0).sort(descending=True)[1] may return: the    *)
(* sort is not stable, equal totals come in any order.                     *)
SortDescending(totals) ==
    {p \in [1..Len(totals) -> 0..(Len(totals) - 1)] :
        /\ \A i, j \in 1..Len(totals) : i # j => p[i] # p[j]
        /\ \A i \in 1..(Len(totals) - 1) :
              RLe(totals[p[i + 1] + 1], totals[p[i] + 1])}

(* stats[:, self.ordering] *)
ordered_columns(stats, ordering) ==
    Tensor([n \in 1..Len(stats) |->
               Tensor([i \in 1..Len(ordering) |-> stats[n][ordering[i] + 1]])])

(* s2[:, :-1] = ordered_stats[:, 1:], then the cumulated sum from the      *)
(* right (flip, cumsum, flip).                                             *)
sb_s2(ordered_stats) ==
    Tensor([n \in 1..Len(ordered_stats) |->
               Tensor([i \in 1..Len(ordered_stats[n]) |->
                          VSum(Slice(ordered_stats[n], i + 1,
                                     Len(ordered_stats[n])))])])

(* new_stats: the pairs, the last column increased by the first, summed    *)
(* over the rows of the batch.                                             *)
sb_new_stats(ordered_stats, s2) ==
    Tensor([i \in 1..Len(ordered_stats[1]) |->
               <<VSum(Tensor([n \in 1..Len(ordered_stats) |-> ordered_stats[n][i]])),
                 VSum(Tensor([n \in 1..Len(ordered_stats) |->
                                 RAdd(s2[n][i], ordered_stats[n][i])]))>>])

sb_accumulate_stats(stats, ordering) ==
    sb_new_stats(ordered_columns(stats, ordering),
                 sb_s2(ordered_columns(stats, ordering)))

(* ---- the model object, its caller and the operations ---- *)

SbKinds == {"SBCategorical", "SBCategoricalHyperPrior"}

SbStrengths == {Z(1), Z(2)}

SbHyperStrengths == {Z(2)}

SbLrates == {Z(0), Z(1)}

(* The batches: one or two one-hot rows. *)
OneHot(k, T) == Tensor([j \in 1..T |-> IF j = k THEN Z(1) ELSE Z(0)])

SbBatches(T) ==
    {<<OneHot(k, T)>> : k \in 1..T}
    \cup {<<OneHot(k, T), OneHot(T, T)>> : k \in 1..T}

sb_create(kind, truncation, prior_strength, hyper_prior_strength) ==
    /\ sbKind = kind
    /\ sbConc = IF kind = "SBCategoricalHyperPrior"
                THEN default_concentration_param(prior_strength,
                                                 hyper_prior_strength)
                ELSE NoConcentration
    /\ sbParam = IF kind = "SBCategoricalHyperPrior"
                 THEN on_concentration_update(
                          default_sb_param(truncation, prior_strength), sbConc)
                 ELSE default_sb_param(truncation, prior_strength)
    /\ sbOrdering = Tensor([i \in 1..truncation |-> i - 1])
    /\ sbCache = EmptyDict

sb_expected_log_likelihood(stats) ==
    /\ sbKind # "none"
    /\ IntegerConcentrations(sbParam.posterior)
    /\ sbCache' = DictUpdate(sbCache, [sb_stats |-> sb_stats(sbParam.posterior)])
    /\ sbRet' = [llh |-> MatVec(ordered_columns(stats, sbOrdering),
                                sb_log_prob(sbParam.posterior))]
    /\ sbOp' = "expected_log_likelihood"
    /\ sbBatch' = stats
    /\ UNCHANGED <<sbKind, sbParam, sbConc, sbOrdering, sbUpdates>>
    /\ UNCHANGED notSbVars

(* SBCategorical.accumulate; SBCategoricalHyperPrior.accumulate adds the   *)
(* cached sb_stats, after the call of super().accumulate.                  *)
sb_accumulate(stats) ==
    /\ sbKind # "none"
    /\ sbOrdering' \in SortDescending(SumDim0(stats, Len(sbOrdering)))
    /\ sbRet' = IF sbKind = "SBCategorical"
                THEN [stickbreaking |-> sb_accumulate_stats(stats, sbOrdering')]
                ELSE IF "sb_stats" \in DOMAIN sbCache
                THEN [stickbreaking |-> sb_accumulate_stats(stats, sbOrdering'),
                      concentration |-> SumDim0(sbCache.sb_stats, 2)]
                ELSE [raised |-> "KeyError"]
    /\ sbOp' = "accumulate"
    /\ sbBatch' = stats
    /\ UNCHANGED <<sbKind, sbParam, sbConc, sbCache, sbUpdates>>
    /\ UNCHANGED notSbVars

(* The caller hands the statistics accumulate returned to store_stats of   *)
(* the parameter they are keyed by.                                        *)
sb_store_stats ==
    /\ sbOp = "accumulate"
    /\ "stickbreaking" \in DOMAIN sbRet
    /\ sbParam' = [sbParam EXCEPT !.stats = sbRet.stickbreaking]
    /\ sbConc' = IF "concentration" \in DOMAIN sbRet
                 THEN [sbConc EXCEPT !.stats = sbRet.concentration]
                 ELSE sbConc
    /\ sbOp' = "store_stats"
    /\ sbRet' = EmptyDict
    /\ sbBatch' = <<>>
    /\ UNCHANGED <<sbKind, sbOrdering, sbCache, sbUpdates>>
    /\ UNCHANGED notSbVars

(* _on_stickbreaking_update: the statistics are computed from the new      *)
(* posterior, and the assignment self.concentration.stats = ... is made to *)
(* a property of BayesianParameter that has no setter.                     *)
on_stickbreaking_update(sb, concentration) ==
    [sb_stats_sum |-> SumDim0(sb_stats(sb.posterior), 2),
     raised |-> "AttributeError",
     calls |-> <<"_on_stickbreaking_update">>,
     concentration |-> concentration]

(* self.stickbreaking.natural_grad_update(lrate) and the dispatch of its   *)
(* callbacks; calls lists the methods entered, in order, up to the return  *)
(* or the exception.                                                       *)
sb_updated(lrate) ==
    [sbParam EXCEPT !.posterior =
        dirichlet_from_natural(
            new_nparams(dirichlet_natural(sbParam.prior), dirichlet_natural(@),
                        Flatten(sbParam.stats), lrate))]

sb_natural_grad_update(lrate) ==
    /\ sbKind # "none"
    /\ sbUpdates < MaxSbUpdates
    /\ sbUpdates' = sbUpdates + 1
    /\ sbParam' = sb_updated(lrate)
    /\ IF sbKind = "SBCategoricalHyperPrior"
       THEN /\ sbRet' =
                [raised |-> on_stickbreaking_update(sbParam', sbConc).raised,
                 calls |-> <<"stickbreaking.natural_grad_update",
                             "stickbreaking.dispatch">>
                           \o on_stickbreaking_update(sbParam', sbConc).calls]
            /\ sbConc' = on_stickbreaking_update(sbParam', sbConc).concentration
       ELSE /\ sbRet' = EmptyDict
            /\ UNCHANGED sbConc
    /\ sbOp' = "natural_grad_update"
    /\ sbBatch' = <<>>
    /\ UNCHANGED <<sbKind, sbOrdering, sbCache>>
    /\ UNCHANGED notSbVars

SbIdle ==
    /\ sbKind = "none"
    /\ sbParam = [prior |-> <<>>, posterior |-> <<>>, stats |-> <<>>]
    /\ sbConc = NoConcentration
    /\ sbOrdering = <<>>
    /\ sbCache = EmptyDict
    /\ sbRet = EmptyDict
    /\ sbOp = "none"
    /\ sbBatch = <<>>
    /\ sbUpdates = 0

SbInit ==
    /\ \E kind \in SbKinds, truncation \in 2..MaxTrunc,
          prior_strength \in SbStrengths,
          hyper_prior_strength \in SbHyperStrengths :
          sb_create(kind, truncation, prior_strength, hyper_prior_strength)
    /\ sbRet = EmptyDict
    /\ sbOp = "create"
    /\ sbBatch = <<>>
    /\ sbUpdates = 0

SbNext ==
    \/ \E stats \in SbBatches(Len(sbOrdering)) : sb_expected_log_likelihood(stats)
    \/ \E stats \in SbBatches(Len(sbOrdering)) : sb_accumulate(stats)
    \/ sb_store_stats
    \/ \E lrate \in SbLrates : sb_natural_grad_update(lrate)

---------------------------------------------------------------------------
(* One call by a caller of a function that keeps no state of its own.      *)

CallIdle ==
    /\ callFn = "none"
    /\ callArgs = EmptyDict
    /\ callRet = EmptyDict

(* ---- _quad_approx(cache), one item, dim_s = 1 ---- *)

(* One item's Hessian as a dim x dim matrix, whatever the mode stores. *)
HessianMatrix(hessian, dim, mode) ==
    CASE mode = "full" -> hessian
      [] mode = "diagonal" ->
            Tensor([a \in 1..dim |-> VMul(hessian, Eye(dim)[a])])
      [] mode = "scalar" -> MatScale(hessian, Eye(dim))

(* The Hessians the likelihood may return, in the representation of the    *)
(* mode: curvatures -2, -1, 0 and (not negative semi-definite) +1.         *)
CurvatureVals == {Z(-2), Z(-1), Z(0), Z(1)}

QuadHessians(dim, mode) ==
    CASE mode = "full" ->
            {MatScale(c, Eye(dim)) : c \in CurvatureVals}
            \cup (IF dim = 2 THEN {<<<<Z(-2), Z(1)>>, <<Z(1), Z(-1)>>>>} ELSE {})
      [] mode = "diagonal" ->
            {Tensor([d \in 1..dim |-> c]) : c \in CurvatureVals}
            \cup {Tensor([d \in 1..dim |-> IF d = 1 THEN Z(-1) ELSE Z(0)])}
      [] mode = "scalar" -> CurvatureVals

(* The means of the global mean, of the basis and of the latent coordinate. *)
MeanVecs(dim) == {VZeros(dim), Tensor([d \in 1..dim |-> Z(d)])}
BasisVecs(dim) ==
    {Tensor([d \in 1..dim |-> Z(1)]),
     Tensor([d \in 1..dim |-> IF d = 1 THEN Z(-1) ELSE Z(2)])}
LatentVals == {Z(0), Z(2)}
OffsetVals == {Z(0), Z(1)}
VarianceVals == {Z(0), Z(1)}

(* The dictionary latent_posteriors(data, cache=True) hands to             *)
(* _quad_approx, for moments m, W (1 x dim), h, their variances vm, u, vh  *)
(* and opt = m + h.W + (off, 0, ...).                                      *)
QuadCache(mode, dim, m, W, h, hessian, off, vm, u, vh) ==
    LET hmat == HessianMatrix(hessian, dim, mode)
        opt_1 == VAdd(VAdd(m, MatMul(<<h>>, W)[1]),
                      Tensor([d \in 1..dim |-> IF d = 1 THEN off ELSE Z(0)]))
    IN  [U |-> <<<<u>>>>,
         opt |-> <<opt_1>>,
         hessians |-> <<hessian>>,
         tr_hessians |-> tr_hessians(<<hessian>>, m, mode),
         m |-> m,
         mm |-> Flatten(MatAdd(Outer(m, m), MatScale(vm, Eye(dim)))),
         W |-> W,
         WW |-> Flatten(MatAdd(MatMul(W, Transpose(W)),
                               MatScale(Z(dim), <<<<u>>>>))),
         H |-> <<h>>,
         HH |-> <<Flatten(MatAdd(Outer(h, h), <<<<vh>>>>))>>,
         stats |-> <<opt_1>>,
         counts |-> <<Z(1)>>,
         WHW |-> <<Flatten(MatAdd(MatScale(VSum(Diag(hmat)), <<<<u>>>>),
                                  MatMul(MatMul(W, hmat), Transpose(W))))>>]

QuadInputs ==
    UNION {
        {[mode |-> mode, pointmass |-> (vm = Z(0) /\ u = Z(0) /\ vh = Z(0)),
          offset |-> off,
          cache |-> QuadCache(mode, dim, m, <<W>>, <<h>>, hessian, off, vm, u, vh)] :
            <<m, W, h, hessian, off, vm, u, vh>> \in
                MeanVecs(dim) \X BasisVecs(dim) \X LatentVals
                \X QuadHessians(dim, mode) \X OffsetVals
                \X VarianceVals \X VarianceVals \X VarianceVals}
        : <<mode, dim>> \in GsmModes \X (1..MaxDim)}

(* approx_llh, new_cache = self._quad_approx(cache) *)
call_quad_approx ==
    /\ callFn = "none"
    /\ "cache" \in DOMAIN callArgs
    /\ callFn' = "_quad_approx"
    /\ callRet' = [approx_llh |-> quad_approx_llh(callArgs.cache, callArgs.mode),
                   new_cache |-> quad_new_cache(callArgs.cache)]
    /\ UNCHANGED callArgs
    /\ UNCHANGED notCallVars

QuadInit ==
    /\ callFn = "none"
    /\ callArgs \in QuadInputs
    /\ callRet = EmptyDict

QuadNext == call_quad_approx

(* ---- GeneralizedSubspaceModel.create(..., hessian_type) ---- *)

HessianTypeArgs == GsmModes \cup {"Full", "diag", "isotropic", ""}

VariantClass(hessian_type) ==
    CASE hessian_type = "full" -> "GeneralizedSubspaceModelFull"
      [] hessian_type = "diagonal" -> "GeneralizedSubspaceModelDiagonal"
      [] hessian_type = "scalar" -> "GeneralizedSubspaceModelScalar"

(* create of the variant class, then __init__: the fields of the object    *)
(* and its two parameters.                                                 *)
variant_create(hessian_type, args) ==
    /\ gType' = hessian_type
    /\ gDims' = [s |-> Len(args.mean_subspace), o |-> Len(args.global_mean)]
    /\ gSubspace' =
          [prior |-> matrixnormal_natural(args.mean_subspace,
                                          Eye(Len(args.mean_subspace))),
           posterior |-> matrixnormal_natural(args.mean_subspace,
                                              Eye(Len(args.mean_subspace))),
           stats |-> VZeros(Len(Flatten(args.mean_subspace))
                            + Len(args.mean_subspace) * Len(args.mean_subspace))]
    /\ gMean' =
          [prior |-> normal_natural(args.global_mean,
                                    MatScale(Z(1), Eye(Len(args.global_mean)))),
           posterior |-> normal_natural(args.global_mean,
                                        MatScale(Z(1), Eye(Len(args.global_mean)))),
           stats |-> VZeros(Len(args.global_mean)
                            + Len(args.global_mean) * Len(args.global_mean))]
    /\ gCache' = EmptyDict
    /\ callRet' = [returned |-> VariantClass(hessian_type)]

(* The else branch taken for every string: an unknown one gets the full   *)
(* variant.                                                                *)
gsm_create_default_full(hessian_type, args) ==
    /\ gType = "none"
    /\ callFn' = "GeneralizedSubspaceModel.create"
    /\ callArgs' = [hessian_type |-> hessian_type, args |-> args]
    /\ IF hessian_type = "diagonal"
       THEN variant_create("diagonal", args)
       ELSE IF hessian_type = "scalar"
       THEN variant_create("scalar", args)
       ELSE variant_create("full", args)
    /\ gOp' = "create"
    /\ UNCHANGED <<gRet, gBatch, gFwd, gRead, gUpdates>>
    /\ UNCHANGED <<paramVars, distVars, sbVars>>

gsm_create(hessian_type, args) ==
    /\ gType = "none"
    /\ callFn' = "GeneralizedSubspaceModel.create"
    /\ callArgs' = [hessian_type |-> hessian_type, args |-> args]
    /\ IF hessian_type = "full"
       THEN variant_create("full", args)
       ELSE IF hessian_type = "diagonal"
       THEN variant_create("diagonal", args)
       ELSE IF hessian_type = "scalar"
       THEN variant_create("scalar", args)
       ELSE /\ callRet' = [raised |-> "ValueError"]
            /\ UNCHANGED <<gType, gDims, gMean, gSubspace, gCache>>
    /\ gOp' = "create"
    /\ UNCHANGED <<gRet, gBatch, gFwd, gRead, gUpdates>>
    /\ UNCHANGED <<paramVars, distVars, sbVars>>

(* The methods are those of a model object create returned. *)
CreateNext ==
    \/ \E hessian_type \in HessianTypeArgs, args \in GsmCreateArgs :
          gsm_create(hessian_type, args)
    \/ (gType \in GsmModes /\ GsmNext)

(* ---- models/normalset.py: NormalSet.create ---- *)

CovTypeArgs == {"full", "diagonal", "isotropic", "Full", "diag", "spherical", ""}

(* a in b for two strings: b contains a. *)
StrContains(a, b) ==
    \/ a = b
    \/ a = ""
    \/ <<a, b>> \in {<<"diag", "diagonal">>, <<"ull", "full">>,
                     <<"ull", "Full">>}

(* The keys of the dictionary _default_param and the positional           *)
(* parameters of the functions it maps them to.                            *)
default_param ==
    [full |-> [name |-> "_default_fullcov_param", nparams |-> 4,
               family |-> "NormalWishart"],
     diagonal |-> [name |-> "_default_diagcov_param", nparams |-> 6,
                   family |-> "NormalGamma"],
     isotropic |-> [name |-> "_default_isocov_param", nparams |-> 6,
                    family |-> "IsotropicNormalGamma"]]

NormalSetArgs ==
    {[mean |-> mean, size |-> size, cov_type |-> cov_type,
      shared_cov |-> shared_cov] :
        <<mean, size, cov_type, shared_cov>> \in
            (UNION {Vectors(dim, ElemVals) : dim \in 1..MaxDim})
            \X (1..MaxComp) \X CovTypeArgs \X BOOLEAN}

(* What NormalSet.create(mean, cov, size, cov_type=..., shared_cov=...)    *)
(* returns or raises; built counts the parameter objects constructed.      *)
normalset_create(args) ==
    LET warned == args.shared_cov
    IN  IF ~StrContains(args.cov_type, args.cov_type)
        THEN [raised |-> "UnknownCovarianceType", built |-> 0, warned |-> warned]
        ELSE IF args.cov_type \notin DOMAIN default_param
        THEN [raised |-> "KeyError", built |-> 0, warned |-> warned]
        ELSE IF default_param[args.cov_type].nparams # 6
        THEN [raised |-> "TypeError", built |-> 0, warned |-> warned]
        ELSE [returned |-> "NormalSet", built |-> 1, warned |-> warned,
              family |-> default_param[args.cov_type].family,
              prior_means |-> Tensor([k \in 1..args.size |-> args.mean])]

call_normalset_create ==
    /\ callFn = "none"
    /\ "cov_type" \in DOMAIN callArgs
    /\ callFn' = "NormalSet.create"
    /\ callRet' = normalset_create(callArgs)
    /\ UNCHANGED callArgs
    /\ UNCHANGED notCallVars

NormalSetInit ==
    /\ callFn = "none"
    /\ callArgs \in NormalSetArgs
    /\ callRet = EmptyDict

(* ---- NormalSet.__getitem__(key) ---- *)

(* Keys within range: an integer 0 <= start < size (stop = start + 1), or  *)
(* a slice start:stop with 0 <= start <= stop <= size.                     *)
GetItemKeys(size) ==
    {[kind |-> "int", start |-> i, stop |-> i + 1] : i \in 0..(size - 1)}
    \cup {[kind |-> "slice", start |-> lo, stop |-> hi] :
             <<lo, hi>> \in {k \in (0..size) \X (0..size) : k[1] <= k[2]}}

(* self.means_precisions[key]: one element, or the sub-collection. *)
means_precisions_getitem(means_precisions, key) ==
    IF key.kind = "slice"
    THEN [collection |-> Tensor([i \in 1..(key.stop - key.start) |->
                                    means_precisions[key.start + i]])]
    ELSE [element |-> means_precisions[key.start + 1]]

(* What __getitem__ returns; dropped lists the objects it built and did    *)
(* not return.  The slice branch builds a NormalSet in an expression       *)
(* statement and goes on to the return of the other branch.                *)
normalset_getitem(means_precisions, key) ==
    IF key.kind = "slice"
    THEN [returned |-> "Normal",
          params |-> means_precisions_getitem(means_precisions, key),
          dropped |-> <<"NormalSet">>]
    ELSE [returned |-> "Normal",
          params |-> means_precisions_getitem(means_precisions, key),
          dropped |-> <<>>]

(* model[key], model being the NormalSet create returned. *)
call_normalset_getitem(key) ==
    /\ callFn = "NormalSet.create"
    /\ "returned" \in DOMAIN callRet
    /\ key \in GetItemKeys(Len(callRet.prior_means))
    /\ callFn' = "NormalSet.__getitem__"
    /\ callArgs' = [means_precisions |-> callRet.prior_means, key |-> key]
    /\ callRet' = normalset_getitem(callRet.prior_means, key)
    /\ UNCHANGED notCallVars

NormalSetNext ==
    \/ call_normalset_create
    \/ \E key \in GetItemKeys(MaxComp) : call_normalset_getitem(key)

---------------------------------------------------------------------------
(* dists/normalgamma.py: NormalDiagonalLikelihood and                      *)
(* JointNormalDiagonalLikelihood.                                          *)

(* torch.exp makes the elements leave the rationals.  An element here is   *)
(* a finite sum of terms q * e^x with rational q # 0 and distinct rational *)
(* x, held as the set of its pairs <<x, q>>; the numbers e^x for distinct  *)
(* rational x are linearly independent over the rationals, so two elements *)
(* are equal exactly when their sets are.                                  *)
EConst(q) == IF q = Z(0) THEN {} ELSE {<<Z(0), q>>}

EExp(x) == {<<x, Z(1)>>}

ECoef(a, x) == IF \E t \in a : t[1] = x THEN (CHOOSE t \in a : t[1] = x)[2] ELSE Z(0)

EAdd(a, b) ==
    {t \in {<<x, RAdd(ECoef(a, x), ECoef(b, x))>> : x \in {s[1] : s \in a \cup b}} :
        t[2] # Z(0)}

ETimesTerm(a, t) == {<<RAdd(s[1], t[1]), RMul(s[2], t[2])>> : s \in a}

RECURSIVE EMul(_, _)
EMul(a, b) ==
    IF b = {} THEN {}
    ELSE LET t == CHOOSE t \in b : TRUE
         IN  EAdd(ETimesTerm(a, t), EMul(a, b \ {t}))

(* a / b for the divisors the two classes meet: one term, or zero (the     *)
(* quotient is then inf or nan, held as a non-finite coefficient).         *)
EDiv(a, b) ==
    IF Cardinality(b) = 1
    THEN LET t == CHOOSE t \in b : TRUE
         IN  {<<RSub(s[1], t[1]), RDiv(s[2], t[2])>> : s \in a}
    ELSE {<<Z(0), NonFinite>>}

EVec(v) == Tensor([i \in 1..Len(v) |-> EConst(v[i])])
EVExp(v) == Tensor([i \in 1..Len(v) |-> EExp(v[i])])
EVMul(a, b) == Tensor([i \in 1..BLen(a, b) |-> EMul(At(a, i), At(b, i))])
EVDiv(a, b) == Tensor([i \in 1..BLen(a, b) |-> EDiv(At(a, i), At(b, i))])

RECURSIVE EVSum(_)
EVSum(a) == IF a = <<>> THEN {} ELSE EAdd(Head(a), EVSum(Tail(a)))

(* NormalDiagonalLikelihood(dim).parameters_from_pdfvector(pdfvec) *)
normal_diag_parameters_from_pdfvector(dim, pdfvec) ==
    LET precision == Slice(pdfvec, dim + 1, 2 * dim)
        mean == EVDiv(Slice(pdfvec, 1, dim), precision)
    IN  [mean |-> mean, precision |-> precision]

(* One row of NormalDiagonalLikelihood.pdfvectors_from_rvectors(rvecs):    *)
(* dim is taken from the width of rvecs, and rvecs[:, -2:-1] is the one    *)
(* column before the last.                                                 *)
normal_diag_pdfvector_from_rvector(rvec) ==
    LET dim == Len(rvec) - 1
        mean == Slice(rvec, 1, dim)
        log_precision == Slice(rvec, Len(rvec) - 1, Len(rvec) - 1)
        precision == EVExp(log_precision)
    IN  EVMul(precision, EVec(mean))
        \o precision
        \o <<EVSum(EVMul(precision, EVec(VMul(mean, mean))))>>
        \o <<EConst(VSum(log_precision))>>

normal_diag_pdfvectors_from_rvectors(rvecs) ==
    Tensor([n \in 1..Len(rvecs) |-> normal_diag_pdfvector_from_rvector(rvecs[n])])

(* JointNormalDiagonalLikelihood(ncomp, dim).parameters_from_pdfvector *)
joint_parameters_from_pdfvector(ncomp, dim, pdfvec) ==
    LET ndim == ncomp * dim
        precision == Slice(pdfvec, ndim + 1, ndim + dim)
        rows == Reshape(Slice(pdfvec, 1, ndim), ncomp, dim)
        means == Tensor([k \in 1..ncomp |-> EVDiv(rows[k], precision)])
    IN  [mean |-> means, precision |-> precision]

(* One row of JointNormalDiagonalLikelihood.pdfvectors_from_rvectors. *)
joint_pdfvector_from_rvector(k, dim, rvec) ==
    LET means == Reshape(Slice(rvec, 1, k * dim), k, dim)
        log_precision == Slice(rvec, k * dim + 1, Len(rvec))
        precision == EVExp(log_precision)
    IN  Flatten(Tensor([j \in 1..k |-> EVMul(EVec(means[j]), precision)]))
        \o precision
        \o Tensor([j \in 1..k |->
               EVSum(EVMul(EVec(VMul(means[j], means[j])), precision))])
        \o <<EConst(VSum(log_precision))>>

joint_pdfvectors_from_rvectors(k, dim, rvecs) ==
    Tensor([n \in 1..Len(rvecs) |-> joint_pdfvector_from_rvector(k, dim, rvecs[n])])

(* The representation vectors of the callers: a mean (ncomp means) and a   *)
(* log-precision of dimension dim, concatenated; one or two rows.          *)
RvecMeans(dim) ==
    MeanVecs(dim) \cup {Tensor([d \in 1..dim |-> Half])}

RvecLogPrecisions(dim) ==
    {VZeros(dim), Tensor([d \in 1..dim |-> Z(d)]),
     Tensor([d \in 1..dim |-> Z(-1)]),
     Tensor([d \in 1..dim |-> IF d = 1 THEN Z(-1) ELSE Half])}

RvecRows(mean, log_precision, nrows) ==
    Tensor([n \in 1..nrows |->
        VAdd(mean, <<Z(n - 1)>>) \o VSub(log_precision, <<Z(n - 1)>>)])

RvecInputs ==
    UNION {
        {[family |-> "NormalDiagonalLikelihood", dim |-> dim, ncomp |-> 1,
          rvecs |-> RvecRows(mean, lp, nrows)] :
            <<mean, lp, nrows>> \in
                RvecMeans(dim) \X RvecLogPrecisions(dim) \X {1, 2}}
        : dim \in 1..MaxDim}
    \cup
    UNION {
        {[family |-> "JointNormalDiagonalLikelihood", dim |-> dim, ncomp |-> k,
          rvecs |-> RvecRows(
                        Flatten(Tensor([j \in 1..k |-> VAdd(mean, <<Z(j - 1)>>)])),
                        lp, nrows)] :
            <<mean, lp, nrows>> \in
                RvecMeans(dim) \X RvecLogPrecisions(dim) \X {1, 2}}
        : <<k, dim>> \in (1..MaxComp) \X (1..MaxDim)}

(* pdfvecs = llh.pdfvectors_from_rvectors(rvecs) *)
call_pdfvectors_from_rvectors ==
    /\ callFn = "none"
    /\ "rvecs" \in DOMAIN callArgs
    /\ callFn' = "pdfvectors_from_rvectors"
    /\ callRet' =
        [pdfvecs |->
            IF callArgs.family = "NormalDiagonalLikelihood"
            THEN normal_diag_pdfvectors_from_rvectors(callArgs.rvecs)
            ELSE joint_pdfvectors_from_rvectors(callArgs.ncomp, callArgs.dim,
                                                callArgs.rvecs)]
    /\ UNCHANGED callArgs
    /\ UNCHANGED notCallVars

(* mean, precision = llh.parameters_from_pdfvector(pdfvecs[n]), each n *)
call_parameters_from_pdfvector ==
    /\ callFn = "pdfvectors_from_rvectors"
    /\ callFn' = "parameters_from_pdfvector"
    /\ callRet' =
        [pdfvecs |-> callRet.pdfvecs,
         parameters |->
            Tensor([n \in 1..Len(callRet.pdfvecs) |->
                IF callArgs.family = "NormalDiagonalLikelihood"
                THEN normal_diag_parameters_from_pdfvector(
                         callArgs.dim, callRet.pdfvecs[n])
                ELSE joint_parameters_from_pdfvector(
                         callArgs.ncomp, callArgs.dim, callRet.pdfvecs[n])])]
    /\ UNCHANGED callArgs
    /\ UNCHANGED notCallVars

LikelihoodInit ==
    /\ callFn = "none"
    /\ callArgs \in RvecInputs
    /\ callRet = EmptyDict

LikelihoodNext ==
    \/ call_pdfvectors_from_rvectors
    \/ call_parameters_from_pdfvector

---------------------------------------------------------------------------
Init == ParamInit /\ DistIdle /\ GsmIdle /\ CallIdle /\ SbIdle

Next == ParamNext

Spec == Init /\ [][Next]_vars

InitCallbacks == ParamInit /\ DistIdle /\ GsmIdle /\ CallIdle /\ SbIdle

SpecCallbacks == InitCallbacks /\ [][CallbackNext]_vars

InitDist == DistInit /\ ParamIdle /\ GsmIdle /\ CallIdle /\ SbIdle

SpecDist == InitDist /\ [][DistNext]_vars

InitGSM == GsmInit /\ ParamIdle /\ DistIdle /\ CallIdle /\ SbIdle

SpecGSM == InitGSM /\ [][GsmNext]_vars

InitQuad == QuadInit /\ ParamIdle /\ DistIdle /\ GsmIdle /\ SbIdle

SpecQuad == InitQuad /\ [][QuadNext]_vars

InitNormalSet == NormalSetInit /\ ParamIdle /\ DistIdle /\ GsmIdle /\ SbIdle

SpecNormalSet == InitNormalSet /\ [][NormalSetNext]_vars

InitSB == SbInit /\ ParamIdle /\ DistIdle /\ GsmIdle /\ CallIdle

SpecSB == InitSB /\ [][SbNext]_vars

InitLikelihood == LikelihoodInit /\ ParamIdle /\ DistIdle /\ GsmIdle /\ SbIdle

SpecLikelihood == InitLikelihood /\ [][LikelihoodNext]_vars

InitCreate == GsmIdle /\ CallIdle /\ ParamIdle /\ DistIdle /\ SbIdle

SpecCreate == InitCreate /\ [][CreateNext]_vars

---------------------------------------------------------------------------
(* Properties of the Bayesian parameter (specifications Spec and           *)
(* SpecCallbacks).                                                         *)

\* C1: natural_grad_update(lrate) sets the posterior's natural parameters
\* to posterior_natural + lrate * (prior_natural + stats - posterior_natural),
\* posterior_natural being the value before the call; with lrate = 1 the
\* result is exactly prior_natural + stats, whatever the posterior was.
NaturalGradUpdateRule ==
    [][\A lrate \in Lrates :
          natural_grad_update(lrate) =>
              LET before == natural_parameters(posterior)
                  pri == natural_parameters(prior)
                  S == StatsValue
                  after == natural_parameters(posterior')
              IN  /\ Len(after) = Len(before)
                  /\ \A i \in 1..Len(before) :
                        /\ IsFinite(after[i])
                        /\ after[i] =
                             RAdd(before[i],
                                  RMul(lrate,
                                       RSub(RAdd(pri[i], S[i]), before[i])))
                        /\ lrate = Z(1) => after[i] = RAdd(pri[i], S[i])
      ]_vars

NaturalGradUpdateRuleWitness ==
    /\ lastOp = "natural_grad_update"
    /\ nUpdates = 1
    /\ Len(prior.mean) = 1
    /\ StatsValue # VZeros(Len(StatsValue))
    /\ natural_parameters(posterior)
         = VAdd(natural_parameters(prior), StatsValue)

\* C2: each call of natural_grad_update invokes every registered callback
\* exactly once, with no argument, and after the posterior holds its new
\* value: a callback reading the posterior sees the updated natural
\* parameters.  Callbacks that are not registered are not invoked.
CallbacksFireOnceAfterUpdate ==
    [][\A lrate \in Lrates :
          natural_grad_update(lrate) =>
              \A c \in CallbackIds :
                  IF c \in callbacks
                  THEN /\ cbLog'[c].calls = cbLog[c].calls + 1
                       /\ cbLog'[c].nargs = 0
                       /\ cbLog'[c].seen = natural_parameters(posterior')
                  ELSE cbLog'[c] = cbLog[c]
      ]_vars

CallbacksFireOnceAfterUpdateWitness ==
    /\ lastOp = "natural_grad_update"
    /\ callbacks = CallbackIds
    /\ nUpdates = 1
    /\ \A c \in CallbackIds :
          /\ cbLog[c].calls = 1
          /\ cbLog[c].seen = natural_parameters(posterior)
    /\ natural_parameters(posterior) # natural_parameters(prior)
    /\ Len(prior.mean) = 1

\* C6: store_stats(v) stores a snapshot of v: right after the call stats
\* equals v and does not require gradients, and afterwards the stored
\* statistics and the caller's tensor are independent: zero_stats() does
\* not change any tensor of the caller, and an in-place change of a caller
\* tensor does not change stats.
StoreStatsIsSnapshot ==
    [][/\ \A t \in CallerIds :
            store_stats(t) =>
                StatsValue' = tensors[t] /\ ~StatsRequiresGrad'
       /\ zero_stats => tensors' = tensors
       /\ \A t \in CallerIds : caller_write(t) => StatsValue' = StatsValue
      ]_vars

\* C7: the accumulated statistics are the zero vector at construction and
\* in every reachable state have the dimension of the natural-parameter
\* vector of the prior and of the posterior.
StatsDimension ==
    /\ Len(StatsValue) = Len(natural_parameters(prior))
    /\ Len(StatsValue) = Len(natural_parameters(posterior))
    /\ lastOp = "init" => StatsValue = VZeros(Len(natural_parameters(prior)))

StatsDimensionWitness ==
    /\ lastOp = "natural_grad_update"
    /\ statsRef = "u"
    /\ StatsValue = VZeros(Len(natural_parameters(prior)))
    /\ ownBuf # VZeros(Len(natural_parameters(prior)))

\* C8: zero_stats() resets the accumulated statistics to the all-zero
\* vector of unchanged dimension, from any state, and changes neither the
\* prior nor the posterior.
ZeroStatsResets ==
    [][zero_stats =>
          /\ StatsValue' = VZeros(Len(StatsValue))
          /\ prior' = prior
          /\ posterior' = posterior
      ]_vars

ZeroStatsResetsWitness ==
    /\ lastOp = "zero_stats"
    /\ statsRef = "u"
    /\ nUpdates > 0
    /\ posterior # prior
    /\ StatsValue = VZeros(Len(natural_parameters(prior)))

---------------------------------------------------------------------------
(* Properties of the distributions (specification SpecDist).               *)

\* C10: round trip: for NormalGamma (mean, scale, shape, rates) and for
\* JointNormalGamma (means, scales, shape, rates, any number of components
\* K >= 1), feeding the vector returned by natural_parameters() to
\* update_from_natural_parameters reproduces the standard parameters the
\* distribution had, for positive scale(s) and rates.
RoundTripStdParams ==
    distOp = "update_from_natural_parameters" =>
        /\ distParams = distBuilt
        /\ VFinite(distParams.rates)
        /\ IsFinite(distParams.shape)

RoundTripStdParamsWitness ==
    /\ distOp = "update_from_natural_parameters"
    /\ distFamily = "JointNormalGamma"
    /\ Len(distBuilt.means) = 2
    /\ Len(distBuilt.rates) = 2
    /\ distBuilt.means[1] # distBuilt.means[2]
    /\ distBuilt.means[1][1] # distBuilt.means[1][2]
    /\ distNat = joint_natural_parameters(distBuilt)

---------------------------------------------------------------------------
(* Properties of the generalized subspace model (specification SpecGSM).   *)

ForwardKeys == {"hessians", "opt", "H", "HH", "hW"}

AccumulateReturned == gOp = "accumulate" /\ "mean" \in DOMAIN gRet

\* C3: when accumulate follows the expected_log_likelihood call of the same
\* batch, the Hessians, opt, H, HH and hW it reads from the cache are the
\* tensors that forward pass used for its evidence term, whatever was
\* called in between, and the mean and subspace statistics it returns are
\* computed from them.
AccumulateUsesForwardCache ==
    (AccumulateReturned /\ gFwd.batch = gBatch) =>
        /\ \A key \in ForwardKeys : gRead[key] = gFwd.used[key]
        /\ gRet = accumulate_stats(
                      [key \in AccumulateKeys |->
                          IF key \in ForwardKeys THEN gFwd.used[key]
                          ELSE gCache[key]],
                      gType)

AccumulateUsesForwardCacheWitness ==
    /\ AccumulateReturned
    /\ gFwd.batch = gBatch
    /\ gBatch = "A"
    /\ gUpdates = 1
    /\ gMean.posterior # gMean.prior
    /\ gSubspace.posterior # gSubspace.prior
    /\ gRead.hW # Tensor([i \in 1..Len(gRead.hW) |-> gRead.m])
    /\ gRet.mean # gMean.stats

\* C4: an accumulate call that returns statistics was given the batch of
\* the last forward pass and is the first accumulate since that forward
\* pass: the cache is never read for another batch, nor a second time.
CacheNeverReadAcrossBatches ==
    AccumulateReturned => (gFwd.batch = gBatch /\ gFwd.reads = 1)

\* C5: no partial commit: latent_posteriors, expected_log_likelihood and
\* accumulate leave the prior, the posterior and the stored stats of the
\* mean and of the subspace parameter unchanged, and the posterior of
\* either parameter changes only in a natural_grad_update step.
NoPartialCommit ==
    [][/\ gOp' \in {"latent_posteriors", "expected_log_likelihood", "accumulate"}
          => (gMean' = gMean /\ gSubspace' = gSubspace)
       /\ (gMean'.posterior # gMean.posterior
             \/ gSubspace'.posterior # gSubspace.posterior)
          => gOp' = "natural_grad_update"
       /\ (gMean'.prior = gMean.prior /\ gSubspace'.prior = gSubspace.prior)
      ]_vars

NoPartialCommitWitness ==
    /\ AccumulateReturned
    /\ gUpdates = 1
    /\ gMean.posterior # gMean.prior
    /\ gSubspace.posterior # gSubspace.prior
    /\ gRet.mean # gMean.stats
    /\ gRet.subspace # gSubspace.stats
    /\ gFwd.batch = "B"

(* The forward pass of the model of another mode on the batch and the     *)
(* posteriors of the last call.                                            *)
OtherMode(mode) ==
    quad_approx(latent_posteriors_cache(BatchData(gBatch, gDims),
                                        gMean.posterior, gSubspace.posterior,
                                        gDims, mode),
                mode)

\* C9: with a 1-dimensional latent space, the batch and the posteriors of
\* a forward pass give, in the full, the diagonal and the scalar mode, the
\* latent-posterior natural parameters the model computed and the mean and
\* subspace statistics its accumulate computes from the cache, the
\* likelihood's Hessian being the same curvature in each representation.
ModeEquivalence ==
    (gOp = "expected_log_likelihood" /\ gDims.s = 1) =>
        \A mode \in GsmModes :
            /\ OtherMode(mode).l_posts = gRet.l_posts
            /\ accumulate_stats(OtherMode(mode).cache, mode)
                 = accumulate_stats(gCache, gType)

ModeEquivalenceWitness ==
    /\ gOp = "expected_log_likelihood"
    /\ gType = "scalar"
    /\ gDims = [s |-> 1, o |-> 2]
    /\ gBatch = "A"
    /\ gUpdates = 1
    /\ gMean.posterior # gMean.prior
    /\ gSubspace.posterior # gSubspace.prior
    /\ gRet.l_posts[1] # gRet.l_posts[2]


---------------------------------------------------------------------------
(* Properties of _quad_approx as a function of its cache (specification    *)
(* SpecQuad).                                                              *)

(* The expectation of r^T.Hessian.r for r = opt - m - h.W, from the mean   *)
(* of r and the variances of m, W and h: the moments mm, WHW and HH minus  *)
(* the corresponding products of the means.                                *)
ExpectedQuadForm(cache, mode) ==
    LET dim == Len(cache.m)
        hmat == HessianMatrix(cache.hessians[1], dim, mode)
        hW == MatMul(cache.H, cache.W)[1]
        r == VSub(VSub(cache.opt[1], cache.m), hW)
        var_m == VSub(cache.mm, Flatten(Outer(cache.m, cache.m)))
    IN  RAdd(RAdd(Dot(r, MatVec(hmat, r)),
                  Dot(Flatten(hmat), var_m)),
             RSub(Dot(cache.HH[1], cache.WHW[1]),
                  Dot(hW, MatVec(hmat, hW))))

NegSemiDefinite(M) ==
    /\ \A a \in 1..Len(M) : RLe(M[a][a], Z(0))
    /\ Len(M) = 2 =>
          RLe(RMul(M[1][2], M[2][1]), RMul(M[1][1], M[2][2]))

QuadLlhOpt == llh_func(callArgs.cache.opt, callArgs.cache.stats,
                       callArgs.cache.counts)[1]

\* C11: the value _quad_approx adds to llh(opt, stats, counts) for an item
\* is one half of the expected quadratic form of (opt - m - h.W) under the
\* item's Hessian; it is zero when opt = m + H.W and the moments are those of
\* point masses (mm = m m^T, no U contribution in WHW, HH = H H^T), so the
\* evidence term equals llh(opt) there; and for a negative semi-definite
\* Hessian the evidence term is at most llh(opt).
QuadApproxTight ==
    callFn = "_quad_approx" =>
        /\ RSub(callRet.approx_llh[1], QuadLlhOpt)
               = RMul(Half, ExpectedQuadForm(callArgs.cache, callArgs.mode))
        /\ (callArgs.pointmass /\ callArgs.offset = Z(0)) =>
               callRet.approx_llh[1] = QuadLlhOpt
        /\ NegSemiDefinite(HessianMatrix(callArgs.cache.hessians[1],
                                         Len(callArgs.cache.m), callArgs.mode)) =>
               RLe(callRet.approx_llh[1], QuadLlhOpt)

(* A call at the linearization point with point-mass moments and a         *)
(* non-zero Hessian, in two dimensions.                                    *)
QuadApproxTightWitness ==
    /\ callFn = "_quad_approx"
    /\ callArgs.pointmass
    /\ callArgs.offset = Z(0)
    /\ callArgs.mode = "full"
    /\ callArgs.cache.hessians[1] = <<<<Z(-2), Z(1)>>, <<Z(1), Z(-1)>>>>
    /\ callArgs.cache.H[1] = <<Z(2)>>
    /\ callRet.approx_llh[1] = QuadLlhOpt

---------------------------------------------------------------------------
(* Properties of the constructors (specification SpecCreate).              *)

UnknownCovTypeRejected ==
    (callFn = "NormalSet.create"
     /\ callArgs.cov_type \notin {"full", "diagonal", "isotropic"}) =>
        /\ "raised" \in DOMAIN callRet
        /\ callRet.raised = "UnknownCovarianceType"
        /\ callRet.built = 0

---------------------------------------------------------------------------
(* Sampling (specification SpecDist).                                      *)

\* C14: NormalGamma.sample and JointNormalGamma.sample raise
\* NotImplementedError for every nsamples, return no value and leave the
\* parameters of the distribution unchanged.
SampleNotImplemented ==
    [][distOp' = "sample" =>
          /\ callRet' = [raised |-> "NotImplementedError"]
          /\ "returned" \notin DOMAIN callRet'
          /\ distParams' = distParams
          /\ distFamily' = distFamily]_vars

(* sample(2) on a JointNormalGamma whose parameters went through           *)
(* update_from_natural_parameters.                                         *)
SampleNotImplementedWitness ==
    /\ distOp = "sample"
    /\ distFamily = "JointNormalGamma"
    /\ distNat # <<>>
    /\ callArgs = [nsamples |-> 2]
    /\ callRet = [raised |-> "NotImplementedError"]

---------------------------------------------------------------------------
(* Further properties of the generalized subspace model (specification     *)
(* SpecGSM).                                                               *)

\* C15: until an expected_log_likelihood has completed on the model its
\* cache has none of the entries accumulate reads, whatever calls of
\* latent_posteriors (with or without cache=True) were made, and accumulate
\* fails on the missing entries and produces no statistics; once an
\* expected_log_likelihood has completed the cache holds every tensor
\* accumulate reads, with hW = H.W, and accumulate succeeds.
ForwardBeforeAccumulate ==
    IF gFwd.batch = "none"
    THEN /\ AccumulateKeys \cap DOMAIN gCache = {}
         /\ gOp = "accumulate" => gRet = [raised |-> "KeyError"]
    ELSE /\ AccumulateKeys \subseteq DOMAIN gCache
         /\ gCache.hW = MatMul(gCache.H, gCache.W)
         /\ gOp = "accumulate" => DOMAIN gRet = {"mean", "subspace"}

(* accumulate failing on a model that has had no forward pass. *)
ForwardBeforeAccumulateWitness ==
    /\ gOp = "accumulate"
    /\ gFwd.batch = "none"
    /\ gRet = [raised |-> "KeyError"]
    /\ gCache = EmptyDict

(* The natural parameters the claim gives for the latent posterior of one  *)
(* row of the batch, from the Hessian as a matrix Hess, opt, and the       *)
(* moments m, W and covariance U of the two parameter posteriors:          *)
(* prior + ( -(Hess.(opt - m)).W^T , (trace(Hess).U + W.Hess.W^T) / 2 ).   *)
LatentNaturalFrom(hmat, opt, mom, U, dims) ==
    VAdd(latent_prior_natural(dims),
         VNeg(MatVec(mom.W, MatVec(hmat, VSub(opt, mom.m))))
         \o VScale(Half, Flatten(MatAdd(MatScale(VSum(Diag(hmat)), U),
                                        MatMul(MatMul(mom.W, hmat),
                                               Transpose(mom.W))))))

LatentNaturalOfRow(row, mom, U, dims, mode) ==
    LatentNaturalFrom(
        HessianMatrix(
            llh_hessian(llh_argmax(<<Slice(row, 1, Len(row) - 1)>>, <<row[Len(row)]>>),
                        <<Slice(row, 1, Len(row) - 1)>>, <<row[Len(row)]>>, mode)[1],
            dims.o, mode),
        llh_argmax(<<Slice(row, 1, Len(row) - 1)>>, <<row[Len(row)]>>)[1],
        mom, U, dims)

LatentNaturalOfBatch(data, mom, U, dims, mode) ==
    Tensor([i \in 1..Len(data) |-> LatentNaturalOfRow(data[i], mom, U, dims, mode)])

\* C16: latent_posteriors returns one latent posterior per row of the
\* batch, whose natural parameters are those of the standard Normal latent
\* prior plus the concatenation of -(Hessian.(opt - m)).W^T and one half of
\* (trace(Hessian).U + W.Hessian.W^T); the latent prior is the same at every
\* call and the model keeps no latent posterior.
LatentPosteriorForm ==
    gOp \in {"latent_posteriors", "expected_log_likelihood"} =>
        /\ Len(gRet.l_posts) = Len(BatchData(gBatch, gDims))
        /\ gRet.l_posts =
              LatentNaturalOfBatch(
                  BatchData(gBatch, gDims),
                  extract_moments(gMean.posterior, gSubspace.posterior, gDims),
                  matrixnormal_cov(gSubspace.posterior, gDims.s, gDims.o),
                  gDims, gType)
        /\ "l_posts" \notin DOMAIN gCache
        /\ latent_prior_natural(gDims) = normal_natural(<<Z(0)>>, <<<<Z(1)>>>>)

(* latent_posteriors(data) without cache on a two-row batch, after the     *)
(* posteriors of the mean and of the subspace were updated.                *)
LatentPosteriorFormWitness ==
    /\ gOp = "latent_posteriors"
    /\ DOMAIN gRet = {"l_posts"}
    /\ Len(gRet.l_posts) = 2
    /\ gType = "full"
    /\ gDims.o = 2
    /\ gUpdates = 1
    /\ gMean.posterior # gMean.prior
    /\ gSubspace.posterior # gSubspace.prior

(* The Hessians accumulate read, each as a D x D matrix. *)
ReadHessianMatrices ==
    Tensor([i \in 1..Len(gRead.hessians) |->
               HessianMatrix(gRead.hessians[i], gDims.o, gType)])

\* C17: the mean statistics accumulate returns are the concatenation of
\* minus the sum over the items of Hessian_i.(opt_i - hW_i) and one half of
\* the sum over the items of Hessian_i flattened as a full D x D matrix, in
\* the three modes; the vector has dimension D + D*D.
MeanStatsForm ==
    AccumulateReturned =>
        /\ gRet.mean =
              VNeg(SumVecs(Tensor([i \in 1..Len(gRead.opt) |->
                               MatVec(ReadHessianMatrices[i],
                                      VSub(gRead.opt[i], gRead.hW[i]))]),
                           gDims.o))
              \o VScale(Half,
                        SumVecs(Tensor([i \in 1..Len(gRead.opt) |->
                                    Flatten(ReadHessianMatrices[i])]),
                                gDims.o * gDims.o))
        /\ Len(gRet.mean) = gDims.o + gDims.o * gDims.o

(* accumulate of the diagonal variant on two items in two dimensions,      *)
(* after an update.                                                        *)
MeanStatsFormWitness ==
    /\ AccumulateReturned
    /\ gType = "diagonal"
    /\ gDims.o = 2
    /\ Len(gRead.opt) = 2
    /\ Len(gRet.mean) = 6
    /\ gUpdates = 1
    /\ gRead.opt[1] # gRead.hW[1]

\* C18: the subspace statistics accumulate returns are the concatenation of
\* -H^T.((opt - m) scaled per item by s_i) and one half of the sum over the
\* items of s_i.HH_i, where s_i is the trace of the item's Hessian divided
\* by the parameter dimension D, in the three modes.
SubspaceStatsForm ==
    AccumulateReturned =>
        LET s == Tensor([i \in 1..Len(gRead.opt) |->
                            RDiv(VSum(Diag(ReadHessianMatrices[i])), Z(gDims.o))])
        IN  gRet.subspace =
                VNeg(Flatten(MatMul(Transpose(gRead.H),
                                    Tensor([i \in 1..Len(gRead.opt) |->
                                               VScale(s[i], VSub(gRead.opt[i],
                                                                 gRead.m))]))))
                \o VScale(Half,
                          SumVecs(Tensor([i \in 1..Len(gRead.opt) |->
                                             VScale(s[i], gRead.HH[i])]),
                                  gDims.s * gDims.s))

(* accumulate of the scalar variant on two items in two dimensions with    *)
(* non-zero latent means.                                                  *)
SubspaceStatsFormWitness ==
    /\ AccumulateReturned
    /\ gType = "scalar"
    /\ gDims.o = 2
    /\ Len(gRead.opt) = 2
    /\ gRead.H[1] # <<Z(0)>>
    /\ gRead.opt[1] # gRead.m
    /\ gRead.tr_hessians[1] = RMul(Z(2), gRead.hessians[1])

---------------------------------------------------------------------------
(* Properties of the stick-breaking categorical models (specification      *)
(* SpecSB).                                                                *)

(* The concentration parameter as _on_stickbreaking_update is meant to     *)
(* leave it: statistics from the stick-breaking posterior, posterior       *)
(* natural parameters = prior natural parameters + statistics.             *)
ConcentrationFollows ==
    /\ sbConc.stats = SumDim0(sb_stats(sbParam.posterior), 2)
    /\ gamma_natural(sbConc.posterior)
           = VAdd(gamma_natural(sbConc.prior), sbConc.stats)

\* C19: after every natural_grad_update on the stick-breaking parameter of
\* an SBCategoricalHyperPrior the update has completed without error, the
\* callback has set the statistics of the concentration parameter from the
\* new stick-breaking posterior and updated its posterior with lrate = 1,
\* and the second column of the stick-breaking prior equals the value of
\* the concentration parameter.
HyperPriorPropagates ==
    (sbKind = "SBCategoricalHyperPrior" /\ sbOp = "natural_grad_update") =>
        /\ "raised" \notin DOMAIN sbRet
        /\ ConcentrationFollows
        /\ \A t \in 1..Len(sbParam.prior) :
              sbParam.prior[t][2] = gamma_value(sbConc.posterior)

\* C20: after every accumulate(stats) of an SBCategorical the stored
\* ordering is a permutation of the component indices 0..T-1 under which
\* the column sums of stats are non-increasing, reverse_ordering is its
\* inverse, and the statistic returned for sorted position i is the pair
\* (N_i, sum of N_j over the sorted positions j >= i), N_i being the total
\* of the i-th most occupied component.
AccumulateSortsByOccupancy ==
    sbOp = "accumulate" =>
        LET T == Len(sbOrdering)
            totals == SumDim0(sbBatch, T)
        IN  /\ {sbOrdering[i] : i \in 1..T} = 0..(T - 1)
            /\ \A i \in 1..(T - 1) :
                  RLe(totals[sbOrdering[i + 1] + 1], totals[sbOrdering[i] + 1])
            /\ \A i \in 1..T :
                  reverse_ordering(sbOrdering)[sbOrdering[i] + 1] = i - 1
            /\ sbKind = "SBCategorical" => "stickbreaking" \in DOMAIN sbRet
            /\ "stickbreaking" \in DOMAIN sbRet =>
                  \A i \in 1..T :
                      sbRet.stickbreaking[i] =
                          <<totals[sbOrdering[i] + 1],
                            VSum(Tensor([k \in 1..(T - i + 1) |->
                                            totals[sbOrdering[i + k - 1] + 1]]))>>

(* accumulate on two rows that both select the last of three components,   *)
(* with a stored ordering that is not the identity.                        *)
AccumulateSortsByOccupancyWitness ==
    /\ sbOp = "accumulate"
    /\ sbKind = "SBCategorical"
    /\ Len(sbOrdering) = 3
    /\ sbOrdering = <<2, 1, 0>>
    /\ sbBatch = <<<<Z(0), Z(0), Z(1)>>, <<Z(0), Z(0), Z(1)>>>>
    /\ sbRet.stickbreaking = <<<<Z(2), Z(2)>>, <<Z(0), Z(0)>>, <<Z(0), Z(0)>>>>

---------------------------------------------------------------------------
(* Representation vectors (specification SpecLikelihood).                  *)

(* What the round trip should give for row n: the mean (the ncomp means)   *)
(* the row starts with and the exponential of the log-precision it ends    *)
(* with.                                                                   *)
RvecMean(args, n) ==
    IF args.family = "NormalDiagonalLikelihood"
    THEN EVec(Slice(args.rvecs[n], 1, args.dim))
    ELSE Tensor([k \in 1..args.ncomp |->
             EVec(Slice(args.rvecs[n], (k - 1) * args.dim + 1, k * args.dim))])

RvecPrecision(args, n) ==
    EVExp(Slice(args.rvecs[n], args.ncomp * args.dim + 1,
                args.ncomp * args.dim + args.dim))

RoundTripOf(family) ==
    (callFn = "parameters_from_pdfvector" /\ callArgs.family = family) =>
        \A n \in 1..Len(callArgs.rvecs) :
            /\ callRet.parameters[n].mean = RvecMean(callArgs, n)
            /\ callRet.parameters[n].precision = RvecPrecision(callArgs, n)

\* C21: for NormalDiagonalLikelihood of dimension dim, a representation
\* vector made of a dim-vector mean followed by a dim-vector log-precision
\* goes through pdfvectors_from_rvectors and parameters_from_pdfvector back
\* to that mean and to the precision exp(log-precision), component by
\* component; and the same for JointNormalDiagonalLikelihood with ncomp
\* means and one shared log-precision vector.
PdfVectorRoundTrip ==
    /\ RoundTripOf("NormalDiagonalLikelihood")
    /\ RoundTripOf("JointNormalDiagonalLikelihood")

(* The half of the statement about the joint likelihood alone. *)
JointPdfVectorRoundTrip == RoundTripOf("JointNormalDiagonalLikelihood")

---------------------------------------------------------------------------
(* Damped updates (specification Spec).                                    *)

PositiveParams(p) ==
    /\ RPos(p.scale)
    /\ \A d \in 1..Len(p.rates) : RPos(p.rates[d])

(* The parameters prior_natural + stats corresponds to. *)
UpdateTarget ==
    from_natural_parameters(VAdd(natural_parameters(prior), StatsValue))

\* C22: damped updates keep positivity.  If the posterior of a NormalGamma
\* parameter has strictly positive scale and rates and prior_natural + stats
\* corresponds to strictly positive scale and rates, natural_grad_update
\* with lrate in [0, 1] gives a posterior with strictly positive scale and
\* rates.  The library does not check or clamp: whatever the statistics,
\* the posterior becomes the parameters of the interpolated natural vector,
\* non-positive when that vector gives non-positive ones.
PositivityPreserved ==
    [][\A lrate \in Lrates :
          natural_grad_update(lrate) =>
              /\ posterior' =
                    from_natural_parameters(
                        new_nparams(natural_parameters(prior),
                                    natural_parameters(posterior),
                                    StatsValue, lrate))
              /\ (PositiveParams(posterior) /\ PositiveParams(UpdateTarget))
                    => PositiveParams(posterior')
              /\ (lrate = Z(1) /\ ~PositiveParams(UpdateTarget))
                    => ~PositiveParams(posterior')
      ]_vars

(* A damped step has been taken between two positive end points: the       *)
(* posterior is neither the constructor's nor the target.                  *)
PositivityPreservedWitness ==
    /\ lastOp = "natural_grad_update"
    /\ PositiveParams(posterior)
    /\ PositiveParams(UpdateTarget)
    /\ posterior # UpdateTarget
    /\ posterior \notin Posteriors(prior)

(* An update has stored non-positive rates, unchecked. *)
UnclampedUpdateReached ==
    /\ lastOp = "natural_grad_update"
    /\ ~PositiveParams(posterior)

---------------------------------------------------------------------------
(* Repeated updates (specification Spec).                                  *)

\* C23: natural_grad_update leaves the stored statistics (the tensor they
\* are held in and its content) and the prior of the parameter as they
\* were; so natural_grad_update(lrate=1) is idempotent: after each such
\* call the posterior's natural parameters are prior_natural + stats, and a
\* call that directly follows another update and finds them so leaves the
\* posterior as it is.
UpdateKeepsStatsAndPrior ==
    [][\A lrate \in Lrates :
          natural_grad_update(lrate) =>
              /\ prior' = prior
              /\ statsRef' = statsRef
              /\ StatsValue' = StatsValue
              /\ tensors' = tensors
              /\ ownBuf' = ownBuf
              /\ lrate = Z(1) =>
                    /\ natural_parameters(posterior')
                         = VAdd(natural_parameters(prior'), StatsValue')
                    /\ (/\ lastOp = "natural_grad_update"
                        /\ natural_parameters(posterior)
                             = VAdd(natural_parameters(prior), StatsValue))
                          => posterior' = posterior
      ]_vars

(* Two updates have been made on stored, non-zero statistics and the       *)
(* posterior is at prior_natural + stats, away from where it started.      *)
UpdateKeepsStatsAndPriorWitness ==
    /\ lastOp = "natural_grad_update"
    /\ nUpdates = 2
    /\ StatsValue # VZeros(Len(StatsValue))
    /\ posterior \notin Posteriors(prior)
    /\ posterior # prior
    /\ natural_parameters(posterior)
         = VAdd(natural_parameters(prior), StatsValue)

---------------------------------------------------------------------------
(* The ordering and the posterior (specification SpecSB).                  *)

\* C24: the ordering used by expected_log_likelihood and mean is the one
\* under which the statistics absorbed in the stick-breaking posterior were
\* sorted: a call that leaves the posterior as it is (accumulate on a new
\* batch, an update with lrate = 0) leaves the ordering, and so the
\* component each posterior stick is attributed to, as it is.
OrderingFollowsPosterior ==
    [][sbParam'.posterior = sbParam.posterior => sbOrdering' = sbOrdering]_vars

(* The same after statistics were absorbed by an update with lrate = 1. *)
OrderingFollowsAbsorbedStats ==
    [][(/\ sbUpdates >= 1
        /\ sbParam.posterior # sbParam.prior
        /\ sbParam'.posterior = sbParam.posterior)
            => sbOrdering' = sbOrdering]_vars

---------------------------------------------------------------------------
(* The callback chain of SBCategoricalHyperPrior (specification SpecSB).   *)

CountCalls(calls, name) == Cardinality({i \in DOMAIN calls : calls[i] = name})

\* C25: one natural_grad_update on the stick-breaking parameter of an
\* SBCategoricalHyperPrior triggers exactly one natural_grad_update of the
\* concentration parameter, whose callback rewrites the stick-breaking
\* prior and triggers no further update of either posterior: the chain of
\* calls ends, with each update entered once.
CallbackChainOnce ==
    (sbKind = "SBCategoricalHyperPrior" /\ sbOp = "natural_grad_update") =>
        /\ CountCalls(sbRet.calls, "stickbreaking.natural_grad_update") = 1
        /\ CountCalls(sbRet.calls, "concentration.natural_grad_update") = 1
        /\ CountCalls(sbRet.calls, "_on_concentration_update") = 1

(* What does hold: the chain ends, the stick-breaking update is entered    *)
(* once and the concentration's never.                                     *)
CallbackChainStopsAtCallback ==
    (sbKind = "SBCategoricalHyperPrior" /\ sbOp = "natural_grad_update") =>
        /\ sbRet.calls = <<"stickbreaking.natural_grad_update",
                           "stickbreaking.dispatch",
                           "_on_stickbreaking_update">>
        /\ sbRet.raised = "AttributeError"

---------------------------------------------------------------------------
(* NormalSet.create with a supported covariance type (specification        *)
(* SpecNormalSet).                                                         *)

\* C26: NormalSet.create returns a NormalSet for each of the cov_type
\* values "full" (the default), "diagonal" and "isotropic": the builder
\* selected for the type accepts the arguments create passes to it.
CreateSucceedsForSupportedTypes ==
    (callFn = "NormalSet.create"
     /\ callArgs.cov_type \in {"full", "diagonal", "isotropic"}) =>
        /\ "returned" \in DOMAIN callRet
        /\ callRet.returned = "NormalSet"
        /\ callRet.built = 1

(* What does hold: the two types whose builder takes six parameters. *)
CreateSucceedsForSixParameterBuilders ==
    (callFn = "NormalSet.create"
     /\ callArgs.cov_type \in {"diagonal", "isotropic"}) =>
        /\ "returned" \in DOMAIN callRet
        /\ callRet.returned = "NormalSet"

---------------------------------------------------------------------------
(* Indexing a NormalSet (specification SpecNormalSet).                     *)

\* C27: indexing a NormalSet with a slice returns a NormalSet over the
\* selected sub-collection of parameters; indexing with one integer returns
\* one Normal model for that element.
GetItemReturnsSetOrElement ==
    callFn = "NormalSet.__getitem__" =>
        LET key == callArgs.key
        IN  /\ callRet.params
                 = means_precisions_getitem(callArgs.means_precisions, key)
            /\ key.kind = "slice" => callRet.returned = "NormalSet"
            /\ key.kind = "int" =>
                  /\ callRet.returned = "Normal"
                  /\ "element" \in DOMAIN callRet.params

(* What does hold: every key gives a Normal, for a slice one built on the  *)
(* whole sub-collection, the NormalSet having been built and dropped.      *)
GetItemReturnsNormal ==
    callFn = "NormalSet.__getitem__" =>
        /\ callRet.returned = "Normal"
        /\ callArgs.key.kind = "slice" =>
              /\ "collection" \in DOMAIN callRet.params
              /\ callRet.dropped = <<"NormalSet">>
        /\ callArgs.key.kind = "int" =>
              /\ callRet.params.element
                   = callArgs.means_precisions[callArgs.key.start + 1]
              /\ callRet.dropped = <<>>

===========================================================================
